---- MODULE Spec2Model ----
(***************************************************************************)
(* A model of the role-based access-control core of the user service:      *)
(* the relational store (organisation, organisation_user, role, user_role),*)
(* the repository operations that run on it inside WithTransaction, the    *)
(* permission evaluator and the request authorization pipeline.            *)
(***************************************************************************)
EXTENDS Integers, Sequences, FiniteSets, TLC

\* ------------------------------------------------------------------ bounds
\* Number of group ids (uuid.NewString) the store ever hands out.
MaxGroups == 2
\* Number of rows the user_role table may hold (caps addMemberRole).
MaxRows == 3
\* Number of rows the organisation_user table may hold (caps join).
MaxMembers == 3
\* Number of rows the invitation table may hold (caps inviteMember).
MaxInvites == 1
\* Number of roles in one body of the role update route.
MaxUpsert == 2

\* --------------------------------------------------------------- universes
Users == {"u1", "u2"}
GroupIds == 1..MaxGroups
\* The ids the organisation table can hold: those of the groups created on
\* request and one more, for a default group created in compensation.
OrgIds == 1..(MaxGroups + 1)
\* The owner role of group g is created with a fresh uuid; it is modelled as
\* the id g of the role id space.  Ids a caller may pick are CustomRoleIds.
CustomRoleIds == {101}
RoleIds == GroupIds \cup CustomRoleIds
StoredRoleIds == OrgIds \cup CustomRoleIds

\* src/unnamed/part_011 lines 3-17: the ten capability names.
RENAME_GROUP == "RenameGroup"
DELETE_GROUP == "DeleteGroup"
INVITE_MEMBER == "InviteMember"
REMOVE_MEMBER == "RemoveMember"
CREATE_CASE == "CreateCase"
UPDATE_CASE_METADATA == "UpdateCaseMetadata"
DELETE_CASE == "DeleteCase"
EXPORT_CASE == "ExportCase"
VIEW_LOGS == "ViewLogs"
EXPORT_LOGS == "ExportLogs"

Capabilities ==
    {RENAME_GROUP, DELETE_GROUP, INVITE_MEMBER, REMOVE_MEMBER, CREATE_CASE,
     UPDATE_CASE_METADATA, DELETE_CASE, EXPORT_CASE, VIEW_LOGS, EXPORT_LOGS}

\* A role row: the ten boolean columns, one field per column.
Flags(set) == [c \in Capabilities |-> c \in set]
AllTrue == Flags(Capabilities)
AllFalse == Flags({})

GroupOwner == "Group Owner"
DefaultGroupName == "My organisation"

\* ------------------------------------------------------------------- state
VARIABLES
    db,     \* the committed content of the relational store
    last,   \* the outcome of the last completed operation
    ev,     \* a call of EvaluatePermission: its arguments and its result
    req,    \* the request in the middleware chain: its inputs, its gin context
    audit,  \* the entries handed to LogRepository.NewEntry, in order
    revoked, \* the subjects whose sessions were revoked at the identity provider
    tx,     \* the transactions running concurrently: their position and writes
    sink    \* the audit sink: its callers in NewEntry and its write workers

vars == <<db, last, ev, req, audit, revoked, tx, sink>>

\* organisation      : group id -> name, for the groups that exist
\* organisation_user : <<userId, groupId>> -> number of membership rows
\* role              : role id -> [name, groupId, flags], for the roles that exist
\* user_role         : <<userId, roleId>> -> number of assignment rows
\* invitation        : <<userId, groupId>> -> number of pending invitation rows
\* nextOrg           : the next fresh group id
EmptyDB ==
    [organisation |-> <<>>,
     organisation_user |-> [p \in Users \X OrgIds |-> 0],
     role |-> <<>>,
     user_role |-> [p \in Users \X StoredRoleIds |-> 0],
     invitation |-> [p \in Users \X OrgIds |-> 0],
     nextOrg |-> 1]

RECURSIVE SumOver(_, _)
SumOver(f, S) ==
    IF S = {} THEN 0
    ELSE LET x == CHOOSE y \in S : TRUE IN f[x] + SumOver(f, S \ {x})

\* SELECT COUNT(*) FROM user_role WHERE roleId = ?
CountHolders(d, roleId) == SumOver(d.user_role, Users \X {roleId})
\* the rows GetUserOrganisations(userId) returns
UserOrganisations(d, userId) ==
    {g \in DOMAIN d.organisation : d.organisation_user[<<userId, g>>] > 0}
MembershipCount(d, userId) == SumOver(d.organisation_user, {userId} \X OrgIds)
TotalUserRoles(d) == SumOver(d.user_role, Users \X StoredRoleIds)
TotalMembers(d) == SumOver(d.organisation_user, Users \X OrgIds)
TotalInvitations(d) == SumOver(d.invitation, Users \X OrgIds)

Ok(d) == [db |-> d, err |-> "nil"]
Fail(d, e) == [db |-> d, err |-> e]

\* ------------------------------------------------------- role repository
\* The role is created but not mapped to the user.
CreateGroupOwnerRoleUnmapped(d, groupId, userId) ==
    [d EXCEPT !.role = (groupId :> [name |-> GroupOwner, groupId |-> groupId,
                                    flags |-> AllTrue]) @@ @]

\* INSERT INTO role (..., "Group Owner", groupId, true x 10), then
\* INSERT INTO user_role (uuid, userId, roleId).
CreateGroupOwnerRole(d, groupId, userId) ==
    LET roleId == groupId
        withRole == [d EXCEPT !.role = (roleId :> [name |-> GroupOwner, groupId |-> groupId, flags |-> AllTrue]) @@ @]
    IN [withRole EXCEPT !.user_role[<<userId, roleId>>] = @ + 1]

\* INSERT INTO user_role VALUES (uuid, userId, roleId): a fresh row each time.
AddMemberRole(d, userId, roleId) ==
    Ok([d EXCEPT !.user_role[<<userId, roleId>>] = @ + 1])

\* The guard of RemoveMemberRole: the role must exist, and a "Group Owner"
\* role must have more than one user_role row.
\* The role lookup left out: a role id that resolves to nothing passes.
RemoveGuardNoLookup(d, userId, roleId) ==
    IF roleId \in DOMAIN d.role /\ d.role[roleId].name = GroupOwner
       /\ CountHolders(d, roleId) <= 1
    THEN "ForbiddenOperation"
    ELSE "nil"

RemoveGuardOffByOne(d, userId, roleId) ==
    IF roleId \notin DOMAIN d.role THEN "NotFound"
    ELSE IF d.role[roleId].name = GroupOwner /\ CountHolders(d, roleId) < 1
         THEN "ForbiddenOperation"
         ELSE "nil"

RemoveGuard(d, userId, roleId) ==
    IF roleId \notin DOMAIN d.role THEN "NotFound"
    ELSE IF d.role[roleId].name = GroupOwner /\ CountHolders(d, roleId) <= 1
         THEN "ForbiddenOperation"
         ELSE "nil"

\* DELETE FROM user_role WHERE userId = ? AND roleId = ? removes every
\* matching row.
RemoveMemberRole(d, userId, roleId) ==
    LET e == RemoveGuard(d, userId, roleId)
    IN IF e # "nil" THEN Fail(d, e)
       ELSE Ok([d EXCEPT !.user_role[<<userId, roleId>>] = 0])

\* DELETE FROM user_role WHERE roleId = ?, then DELETE FROM role WHERE id = ?
deleteRoleRows(d, roleId) ==
    Ok([d EXCEPT
          !.user_role = [p \in DOMAIN @ |-> IF p[2] = roleId THEN 0 ELSE @[p]],
          !.role = [r \in DOMAIN @ \ {roleId} |-> @[r]]])

\* One statement of the goroutine updateRoles starts for one role.  unit is
\* the goroutine's position: about to check, about to write (with what the
\* check found), or done.
UnitStep(d, role, groupId, unit) ==
    IF unit.phase = "check"
    THEN IF role.name = GroupOwner
         THEN [db |-> d, err |-> "nil", unit |-> [phase |-> "done", exists |-> FALSE]]
         ELSE [db |-> d, err |-> "nil",
               unit |-> [phase |-> "write", exists |-> role.id \in DOMAIN d.role]]
    ELSE IF unit.exists
         THEN \* UPDATE role SET name = ?, <flags> WHERE id = ?
              [db |-> IF role.id \in DOMAIN d.role
                      THEN [d EXCEPT !.role[role.id] =
                               [@ EXCEPT !.name = role.name, !.flags = role.flags]]
                      ELSE d,
               err |-> "nil",
               unit |-> [phase |-> "done", exists |-> TRUE]]
         ELSE \* INSERT INTO role VALUES (id, name, groupId, <flags>)
              IF role.id \in DOMAIN d.role
              THEN [db |-> d, err |-> "GenericSQL",
                    unit |-> [phase |-> "done", exists |-> FALSE]]
              ELSE [db |-> [d EXCEPT !.role = (role.id :>
                                 [name |-> role.name, groupId |-> groupId,
                                  flags |-> role.flags]) @@ @],
                    err |-> "nil",
                    unit |-> [phase |-> "done", exists |-> FALSE]]

\* Every outcome of the goroutines of updateRoles, whose statements the
\* connection runs one at a time in any order; err is the shared _err, which
\* the last failing goroutine wrote.
RECURSIVE UpdateRolesRun(_, _, _, _, _)
UpdateRolesRun(d, roles, groupId, units, err) ==
    LET pending == {i \in 1..Len(roles) : units[i].phase # "done"}
    IN IF pending = {} THEN {[db |-> d, err |-> err]}
       ELSE UNION {
              LET step == UnitStep(d, roles[i], groupId, units[i])
              IN UpdateRolesRun(step.db, roles, groupId,
                                [units EXCEPT ![i] = step.unit],
                                IF step.err # "nil" THEN step.err ELSE err)
              : i \in pending}

updateRolesOutcomes(d, roles, groupId) ==
    UpdateRolesRun(d, roles, groupId,
                   [i \in 1..Len(roles) |-> [phase |-> "check", exists |-> FALSE]],
                   "nil")

\* The role ids of S in ascending order.
RECURSIVE SortedIds(_)
SortedIds(S) ==
    IF S = {} THEN <<>>
    ELSE LET m == CHOOSE x \in S : \A y \in S : x <= y
         IN <<m>> \o SortedIds(S \ {m})

Repeat(x, n) == [i \in 1..n |-> x]

RoleRow(d, r) ==
    [id |-> r, name |-> d.role[r].name, groupId |-> d.role[r].groupId,
     flags |-> d.role[r].flags]

\* The rows of
\*   user_role ur INNER JOIN role r ON ur.roleId = r.id
\*                INNER JOIN organisation_user ou ON ur.userId = ou.userId
\*   WHERE ur.userId = ? AND ou.organisationId = ?
\* one per pair of a user_role row and a membership row; the rows of the
\* roles in ids (a sequence), in that order.
RECURSIVE JoinRows(_, _, _, _)
JoinRows(d, userId, groupId, ids) ==
    IF ids = <<>> THEN <<>>
    ELSE LET r == Head(ids)
             n == d.user_role[<<userId, r>>] * d.organisation_user[<<userId, groupId>>]
         IN Repeat(RoleRow(d, r), n) \o JoinRows(d, userId, groupId, Tail(ids))

readMemberRoles(d, userId, groupId) ==
    IF groupId \notin OrgIds \/ userId \notin Users THEN <<>>
    ELSE JoinRows(d, userId, groupId, SortedIds(DOMAIN d.role))

\* ReadRoles: SELECT * FROM role WHERE organisationId = ?, one Role per row.
RECURSIVE RoleRows(_, _)
RoleRows(d, ids) ==
    IF ids = <<>> THEN <<>>
    ELSE <<RoleRow(d, Head(ids))>> \o RoleRows(d, Tail(ids))
ReadRoles(d, groupId) ==
    RoleRows(d, SortedIds({r \in DOMAIN d.role : d.role[r].groupId = groupId}))

\* ------------------------------------------------------------ evaluator
\* The switch of EvaluatePermission on one role: the field the case of
\* neededPermission reads; no case matches an unknown name.
PermissionCaseSwapped(role, neededPermission) ==
    CASE neededPermission = RENAME_GROUP -> role.flags.RenameGroup
      [] neededPermission = DELETE_GROUP -> role.flags.RenameGroup
      [] neededPermission = INVITE_MEMBER -> role.flags.InviteMember
      [] neededPermission = REMOVE_MEMBER -> role.flags.RemoveMember
      [] neededPermission = CREATE_CASE -> role.flags.CreateCase
      [] neededPermission = UPDATE_CASE_METADATA -> role.flags.UpdateCaseMetadata
      [] neededPermission = DELETE_CASE -> role.flags.DeleteCase
      [] neededPermission = EXPORT_CASE -> role.flags.ExportCase
      [] neededPermission = VIEW_LOGS -> role.flags.ViewLogs
      [] neededPermission = EXPORT_LOGS -> role.flags.ExportLogs
      [] OTHER -> FALSE

PermissionCase(role, neededPermission) ==
    CASE neededPermission = RENAME_GROUP -> role.flags.RenameGroup
      [] neededPermission = DELETE_GROUP -> role.flags.DeleteGroup
      [] neededPermission = INVITE_MEMBER -> role.flags.InviteMember
      [] neededPermission = REMOVE_MEMBER -> role.flags.RemoveMember
      [] neededPermission = CREATE_CASE -> role.flags.CreateCase
      [] neededPermission = UPDATE_CASE_METADATA -> role.flags.UpdateCaseMetadata
      [] neededPermission = DELETE_CASE -> role.flags.DeleteCase
      [] neededPermission = EXPORT_CASE -> role.flags.ExportCase
      [] neededPermission = VIEW_LOGS -> role.flags.ViewLogs
      [] neededPermission = EXPORT_LOGS -> role.flags.ExportLogs
      [] OTHER -> FALSE

\* for _, role := range roles { switch ... return true }; return false
RECURSIVE EvaluatePermission(_, _)
EvaluatePermission(roles, neededPermission) ==
    IF roles = <<>> THEN FALSE
    ELSE IF PermissionCase(Head(roles), neededPermission) THEN TRUE
    ELSE EvaluatePermission(Tail(roles), neededPermission)

\* ------------------------------------------------------- core repository
\* Runs fn in a transaction: commit when it returns nil, rollback otherwise.
\* This is the call in which BeginTx and Commit succeed and fn does not
\* panic; SpecWt below has the call step by step, with those outcomes.
WithTransaction(d, res) ==
    IF res.err = "nil" THEN res ELSE Fail(d, res.err)

\* The call of CreateGroupOwnerRole left out: a group and a membership, no
\* role.
CreateOrganisationWithoutOwnerRole(d, name, userId) ==
    LET g == d.nextOrg
    IN Ok([d EXCEPT !.organisation = (g :> name) @@ @,
                    !.nextOrg = @ + 1,
                    !.organisation_user[<<userId, g>>] = @ + 1])

CreateOrganisationWithTx(d, name, userId) ==
    LET g == d.nextOrg
        d1 == [d EXCEPT !.organisation = (g :> name) @@ @,
                        !.nextOrg = @ + 1,
                        !.organisation_user[<<userId, g>>] = @ + 1]
    IN Ok(CreateGroupOwnerRole(d1, g, userId))

\* CALL GroupCleanup(groupId): the group and every row that references it.
GroupCleanup(d, groupId) ==
    LET gone == {r \in DOMAIN d.role : d.role[r].groupId = groupId}
    IN [d EXCEPT
          !.organisation = [g \in DOMAIN @ \ {groupId} |-> @[g]],
          !.organisation_user = [p \in DOMAIN @ |-> IF p[2] = groupId THEN 0 ELSE @[p]],
          !.invitation = [p \in DOMAIN @ |-> IF p[2] = groupId THEN 0 ELSE @[p]],
          !.role = [r \in DOMAIN @ \ gone |-> @[r]],
          !.user_role = [p \in DOMAIN @ |-> IF p[2] \in gone THEN 0 ELSE @[p]]]

\* The test of rows.Next() left out: a default group whatever groups remain.
DefaultGroupAlways(d, userId) ==
    CreateOrganisationWithTx(d, DefaultGroupName, userId)

\* The compensation left out: no default group is ever created.
DefaultGroupIfNoneSkipped(d, userId) == Ok(d)

\* if !rows.Next() { CreateOrganisationWithTx(tx, "My organisation", userId) }
DefaultGroupIfNone(d, userId) ==
    IF UserOrganisations(d, userId) = {}
    THEN CreateOrganisationWithTx(d, DefaultGroupName, userId)
    ELSE Ok(d)

\* The group is cleaned up; the default group is created for userId alone.
DeleteGroupWithTx(d, userId, groupId) ==
    DefaultGroupIfNone(GroupCleanup(d, groupId), userId)

\* The rows-affected check left out: a removal that deletes nothing goes on
\* to the default-group compensation.
RemoveUserFromOrganisationUnchecked(d, userId, organisationId) ==
    DefaultGroupIfNone([d EXCEPT !.organisation_user[<<userId, organisationId>>] = 0],
                       userId)

RemoveUserFromOrganisationWithTx(d, userId, organisationId) ==
    LET count == d.organisation_user[<<userId, organisationId>>]
        d1 == [d EXCEPT !.organisation_user[<<userId, organisationId>>] = 0]
    IN IF count = 0 THEN Fail(d1, "NotFound")
       ELSE DefaultGroupIfNone(d1, userId)

\* INSERT INTO organisation_user (id, userId, organisationId)
AddUserToOrganisationWithTx(d, userId, groupId) ==
    Ok([d EXCEPT !.organisation_user[<<userId, groupId>>] = @ + 1])

\* INSERT INTO invitation (id, userId, email, organisationId)
CreateInvitation(d, userId, groupId) ==
    Ok([d EXCEPT !.invitation[<<userId, groupId>>] = @ + 1])

\* DELETE FROM invitation WHERE id = ?
DeleteInvitationWithTx(d, userId, groupId) ==
    Ok([d EXCEPT !.invitation[<<userId, groupId>>] = IF @ > 0 THEN @ - 1 ELSE 0])

\* IsUserAlreadyMember: the group is among GetUserOrganisations(userId).
IsUserAlreadyMember(d, userId, groupId) == groupId \in UserOrganisations(d, userId)

\* Whether the pipeline lets a request of user u for capability c on the
\* route's group g reach the handler.
HasPermission(d, u, g, c) == EvaluatePermission(readMemberRoles(d, u, g), c)

\* ------------------------------------------------------------ operations
Result(op, user, target, err) ==
    [op |-> op, user |-> user, target |-> target, err |-> err]

\* No request is in the chain.
NoRequest == [stage |-> "idle"]
\* The transaction slots of the concurrent runs, none begun.
TxIds == {"t1", "t2"}
IdleSlot ==
    [pc |-> "idle", op |-> "none", user |-> "none", target |-> 0,
     snapshotTaken |-> FALSE, snapshot |-> EmptyDB, writes |-> <<>>,
     locks |-> {}, err |-> "nil"]
NoTx == [slot |-> [t \in TxIds |-> IdleSlot], indexed |-> FALSE, start |-> EmptyDB]

\* NewLogRepository starts five write workers on one unbuffered channel.
LogWorkers == 5
Workers == 1..LogWorkers
\* The goroutines that may be inside NewEntry at the same time.
MaxCallers == 2
Callers == 1..MaxCallers
\* Every worker waits at the channel, no caller is in NewEntry, no insert has
\* been made.
NoEntries ==
    [worker |-> [w \in Workers |-> "ready"],
     caller |-> [c \in Callers |-> "idle"],
     outcome |-> "none"]

NoEval == [roles |-> <<>>, capability |-> "", called |-> FALSE, result |-> FALSE]

Init ==
    /\ db = EmptyDB
    /\ last = Result("none", "none", 0, "nil")
    /\ ev = NoEval
    /\ req = NoRequest
    /\ audit = <<>>
    /\ revoked = {}
    /\ tx = NoTx
    /\ sink = NoEntries

\* POST /api/group/create
createOrganisation(u) ==
    /\ db.nextOrg <= MaxGroups
    /\ LET res == WithTransaction(db, CreateOrganisationWithTx(db, "Acme", u))
       IN /\ db' = res.db
          /\ last' = Result("createGroup", u, db.nextOrg, res.err)
          /\ UNCHANGED <<ev, req, audit, revoked, tx, sink>>

\* POST /api/group/:id/member/add_role
addMemberRole(u, r) ==
    /\ TotalUserRoles(db) < MaxRows
    /\ r \in DOMAIN db.role
    /\ LET res == WithTransaction(db, AddMemberRole(db, u, r))
       IN /\ db' = res.db
          /\ last' = Result("addMemberRole", u, r, res.err)
          /\ UNCHANGED <<ev, req, audit, revoked, tx, sink>>

\* POST /api/group/:id/member/remove_role
removeMemberRole(u, r) ==
    LET res == WithTransaction(db, RemoveMemberRole(db, u, r))
    IN /\ db' = res.db
       /\ last' = Result("removeMemberRole", u, r, res.err)
       /\ UNCHANGED <<ev, req, audit, revoked, tx, sink>>

\* POST /api/group/member/invite, for the email of registered user u
inviteMember(u, g) ==
    /\ TotalInvitations(db) < MaxInvites
    /\ g \in DOMAIN db.organisation
    /\ IF IsUserAlreadyMember(db, u, g)
       THEN /\ last' = Result("inviteMember", u, g, "Conflict")
            /\ UNCHANGED db
       ELSE LET res == CreateInvitation(db, u, g)
            IN /\ db' = res.db
               /\ last' = Result("inviteMember", u, g, res.err)
    /\ UNCHANGED <<ev, req, audit, revoked, tx, sink>>

\* GET /api/group/join?inv= with the id of a pending invitation of u to g
joinGroup(u, g) ==
    /\ db.invitation[<<u, g>>] > 0
    /\ TotalMembers(db) < MaxMembers
    /\ LET added == AddUserToOrganisationWithTx(db, u, g)
           res == WithTransaction(db, DeleteInvitationWithTx(added.db, u, g))
       IN /\ db' = res.db
          /\ last' = Result("joinGroup", u, g, res.err)
    /\ UNCHANGED <<ev, req, audit, revoked, tx, sink>>

\* DELETE /api/group/member/remove
removeMember(u, g) ==
    LET res == WithTransaction(db, RemoveUserFromOrganisationWithTx(db, u, g))
    IN /\ res.db.nextOrg <= MaxGroups + 2
       /\ db' = res.db
       /\ last' = Result("removeMember", u, g, res.err)
       /\ UNCHANGED <<ev, req, audit, revoked, tx, sink>>

\* DELETE /api/group/:id/delete, by a user the pipeline lets through
deleteGroup(u, g) ==
    /\ HasPermission(db, u, g, DELETE_GROUP)
    /\ LET res == WithTransaction(db, DeleteGroupWithTx(db, u, g))
       IN /\ res.db.nextOrg <= MaxGroups + 2
          /\ db' = res.db
          /\ last' = Result("deleteGroup", u, g, res.err)
    /\ UNCHANGED <<ev, req, audit, revoked, tx, sink>>

NextMember ==
    \/ \E u \in Users : createOrganisation(u)
    \/ \E u \in Users, g \in GroupIds : inviteMember(u, g)
    \/ \E u \in Users, g \in GroupIds : joinGroup(u, g)
    \/ \E u \in Users, g \in GroupIds : removeMember(u, g)
    \/ \E u \in Users, g \in GroupIds : deleteGroup(u, g)

SpecMember == Init /\ [][NextMember]_vars

\* The bodies a caller may post to the role update route: lists of up to
\* MaxUpsert roles, each addressing an existing role or a new id.
RoleInputs(d) ==
    [id : DOMAIN d.role \cup CustomRoleIds,
     name : {"Admin", GroupOwner},
     flags : {AllFalse, AllTrue}]
RoleInputLists(d) == UNION {[1..n -> RoleInputs(d)] : n \in 1..MaxUpsert}

\* POST /api/group/:id/role/update
updateRoles(roles, g) ==
    /\ \E out \in updateRolesOutcomes(db, roles, g) :
          LET res == WithTransaction(db, out)
          IN /\ db' = res.db
             /\ last' = Result("updateRoles", "none", g, res.err)
    /\ UNCHANGED <<ev, req, audit, revoked, tx, sink>>

\* POST /api/group/:id/role/delete
deleteRole(r) ==
    /\ LET res == WithTransaction(db, deleteRoleRows(db, r))
       IN /\ db' = res.db
          /\ last' = Result("deleteRole", "none", r, res.err)
    /\ UNCHANGED <<ev, req, audit, revoked, tx, sink>>

NextAdmin ==
    \/ \E u \in Users : createOrganisation(u)
    \/ \E g \in DOMAIN db.organisation, roles \in RoleInputLists(db) : updateRoles(roles, g)
    \/ \E r \in RoleIds : deleteRole(r)

SpecAdmin == Init /\ [][NextAdmin]_vars

NextRole ==
    \/ \E u \in Users : createOrganisation(u)
    \/ \E u \in Users, r \in RoleIds : addMemberRole(u, r)
    \/ \E u \in Users, r \in RoleIds : removeMemberRole(u, r)

SpecRole == Init /\ [][NextRole]_vars

\* ------------------------------------------------- the evaluator alone
\* Number of roles in the list handed to EvaluatePermission.
MaxRoleList == 2

\* The role rows the evaluator is tried on: no flag, every flag, and for each
\* capability the role with that flag alone.
SampleFlagSets == {{}, Capabilities} \cup {{c} : c \in Capabilities}
SampleRoles ==
    {[id |-> 101, name |-> "Sample", groupId |-> 1, flags |-> Flags(fs)] :
        fs \in SampleFlagSets}
SampleLists == UNION {[1..n -> SampleRoles] : n \in 0..MaxRoleList}
\* The ten names and names no case of the switch matches.
SampleNames == Capabilities \cup {"", "renamegroup", "Group Owner"}

InitEval ==
    /\ db = EmptyDB
    /\ last = Result("none", "none", 0, "nil")
    /\ req = NoRequest
    /\ audit = <<>>
    /\ revoked = {}
    /\ tx = NoTx
    /\ sink = NoEntries
    /\ \E roles \in SampleLists, c \in SampleNames :
           ev = [roles |-> roles, capability |-> c, called |-> FALSE, result |-> FALSE]

evaluate ==
    /\ ~ev.called
    /\ ev' = [ev EXCEPT !.called = TRUE,
                        !.result = EvaluatePermission(ev.roles, ev.capability)]
    /\ UNCHANGED <<db, last, req, audit, revoked, tx, sink>>

NextEval == evaluate

SpecEval == InitEval /\ [][NextEval]_vars

\* --------------------------------------------- the request pipeline
\* The routes of GroupHandlerImpl.RegisterRoutes the pipeline is tried on,
\* keyed as checkPermission keys them (method, space, c.FullPath()).
UpdateRoute == "PATCH /api/group/:id/update"
DeleteRoute == "DELETE /api/group/:id/delete"
InviteRoute == "POST /api/group/member/invite"
RemoveRoute == "DELETE /api/group/member/remove"
MembersRoute == "GET /api/group/:id/members"
JoinRoute == "GET /api/group/join"
Routes == {UpdateRoute, DeleteRoute, InviteRoute, RemoveRoute, MembersRoute, JoinRoute}

\* c.Params.Get("id") finds a value: the route template has the :id segment.
HasIdParam(route) == route \in {UpdateRoute, DeleteRoute, MembersRoute}
\* Some pattern of exemptPaths matches the request path.
IsExempt(route) == route = JoinRoute

\* permissionMap
permissionMap ==
    (UpdateRoute :> RENAME_GROUP) @@ (DeleteRoute :> DELETE_GROUP) @@
    (InviteRoute :> INVITE_MEMBER) @@ (RemoveRoute :> REMOVE_MEMBER) @@
    ("" :> "")

\* The status codes the route's handler writes.
HandlerStatuses(route) ==
    CASE route = UpdateRoute -> {200, 400, 500}
      [] route = DeleteRoute -> {200, 500}
      [] route = InviteRoute -> {200, 400, 409, 500}
      [] route = RemoveRoute -> {200, 400, 404, 500}
      [] route = MembersRoute -> {200, 400, 500}
      [] OTHER -> {308, 400, 404, 500}

\* The switch without its case for 400: the label stays empty.
StatusLabelWithoutBadRequest(code) ==
    CASE code = 200 -> "OK"
      [] code = 500 -> "Error"
      [] code = 403 -> "Forbidden"
      [] code = 409 -> "OK"
      [] code = 401 -> "Unauthorized"
      [] OTHER -> ""

\* The switch of logUserAction on c.Writer.Status(); status stays "" for a
\* code no case names.
StatusLabel(code) ==
    CASE code = 200 -> "OK"
      [] code = 500 -> "Error"
      [] code = 403 -> "Forbidden"
      [] code = 409 -> "OK"
      [] code = 400 -> "Error"
      [] code = 401 -> "Unauthorized"
      [] OTHER -> ""

\* The subjects a bearer token may verify to: the registered users and one
\* the identity provider knows but the user table does not.
Subjects == Users \cup {"ghost"}

\* UserExists runs stmt.Exec on the SELECT and looks at no row: it returns
\* an error only when the statement itself fails.
UserExists(d, uid, sqlFails) == IF sqlFails THEN "GenericSQL" ELSE "nil"

\* The states of the store the pipeline is tried on, each built by the
\* repository operations: u1 creates group 1; u2 may create group 2, may be
\* added to group 1, group 1 may define role 101 and u2 may be given it.
Built(res) == res.db
WithGroup2(d, own) ==
    IF own THEN Built(CreateOrganisationWithTx(d, "Acme", "u2")) ELSE d
WithMember(d, joined) ==
    IF joined THEN Built(AddUserToOrganisationWithTx(d, "u2", 1)) ELSE d
WithRole(d, flags) ==
    LET role == [id |-> 101, name |-> "Admin", flags |-> flags]
    IN Built(CHOOSE out \in updateRolesOutcomes(d, <<role>>, 1) : TRUE)
RoleOptions == {"none", "powerless", "powerful", "heldPowerless", "heldPowerful"}
Scenario(own, joined, option) ==
    LET base == Built(CreateOrganisationWithTx(EmptyDB, "Acme", "u1"))
        plain == WithMember(WithGroup2(base, own), joined)
        flags == IF option \in {"powerful", "heldPowerful"} THEN AllTrue ELSE AllFalse
        roled == IF option = "none" THEN plain ELSE WithRole(plain, flags)
    IN IF option \in {"heldPowerless", "heldPowerful"}
       THEN Built(AddMemberRole(roled, "u2", 101)) ELSE roled

InitReq ==
    /\ \E own \in BOOLEAN, joined \in BOOLEAN, option \in RoleOptions :
          db = Scenario(own, joined, option)
    /\ last = Result("none", "none", 0, "nil")
    /\ ev = NoEval
    /\ req = NoRequest
    /\ audit = <<>>
    /\ revoked = {}
    /\ tx = NoTx
    /\ sink = NoEntries

EmptyContext ==
    [internalService |-> FALSE, userId |-> "", needsPermission |-> FALSE,
     hasPermission |-> FALSE]

\* A request arrives.  internal: the X-Internal-Token header (absent, one
\* CheckToken accepts, one it rejects); authorization: the Authorization
\* header; subject: what firebase.VerifyToken decodes the bearer token to
\* ("invalid": it returns an error); group: the group the request is about.
newRequest ==
    /\ req.stage = "idle"
    /\ \E route \in Routes, internal \in {"none", "valid", "invalid"},
          authorization \in {"none", "malformed", "bearer"},
          subject \in Subjects \cup {"invalid"}, group \in GroupIds :
          req' = [stage |-> "verifyInternalServiceToken", route |-> route,
                  internal |-> internal, authorization |-> authorization,
                  subject |-> subject, group |-> group, ctx |-> EmptyContext,
                  aborted |-> FALSE, status |-> 200, handlerRan |-> FALSE,
                  memberRoles |-> <<>>, rolesRead |-> FALSE]
    /\ UNCHANGED <<db, last, ev, audit, revoked, tx, sink>>

\* A status written without aborting the chain: the next handler runs.
AbortWithoutStop(r, code) ==
    [r EXCEPT !.aborted = TRUE, !.status = code, !.stage = "handler"]

\* c.AbortWithStatus(code): no later handler of the chain runs.
Abort(r, code) == [r EXCEPT !.aborted = TRUE, !.status = code, !.stage = "done"]

\* A header that fails validation is passed over: the request goes on as one
\* without the header.
verifyInternalServiceTokenLenient ==
    /\ req.stage = "verifyInternalServiceToken"
    /\ req' = IF req.internal = "valid"
              THEN [req EXCEPT !.ctx.internalService = TRUE, !.stage = "verifyToken"]
              ELSE [req EXCEPT !.stage = "verifyToken"]
    /\ UNCHANGED <<db, last, ev, audit, revoked, tx, sink>>

verifyInternalServiceToken ==
    /\ req.stage = "verifyInternalServiceToken"
    /\ req' = IF req.internal = "none" THEN [req EXCEPT !.stage = "verifyToken"]
              ELSE IF req.internal = "invalid" THEN Abort(req, 403)
              ELSE [req EXCEPT !.ctx.internalService = TRUE, !.stage = "verifyToken"]
    /\ UNCHANGED <<db, last, ev, audit, revoked, tx, sink>>

verifyToken ==
    /\ req.stage = "verifyToken"
    /\ \E sqlFails \in BOOLEAN :
         LET next == [req EXCEPT !.stage = "checkPermission"]
         IN IF req.ctx.internalService \/ IsExempt(req.route)
            THEN req' = next /\ UNCHANGED revoked
            ELSE IF req.authorization # "bearer"
            THEN req' = Abort(req, 400) /\ UNCHANGED revoked
            ELSE IF req.subject = "invalid"
            THEN req' = Abort(req, 403) /\ UNCHANGED revoked
            ELSE IF UserExists(db, req.subject, sqlFails) # "nil"
            THEN req' = Abort(req, 403) /\ revoked' = revoked \cup {req.subject}
            ELSE req' = [next EXCEPT !.ctx.userId = req.subject] /\ UNCHANGED revoked
    /\ UNCHANGED <<db, last, ev, audit, tx, sink>>

\* The check for the :id parameter left out: the roles are read for whatever
\* group the request names.
checkPermissionNoIdCheck ==
    /\ req.stage = "checkPermission"
    /\ \E sqlFails \in BOOLEAN :
         LET next == [req EXCEPT !.stage = "logUserAction"]
             key == req.route
         IN req' =
              IF req.ctx.internalService \/ key \notin DOMAIN permissionMap
              THEN next
              ELSE IF sqlFails
              THEN Abort([req EXCEPT !.ctx.needsPermission = TRUE], 500)
              ELSE LET memberRoles == readMemberRoles(db, req.ctx.userId, req.group)
                   IN [next EXCEPT
                         !.ctx.needsPermission = TRUE,
                         !.memberRoles = memberRoles,
                         !.rolesRead = TRUE,
                         !.ctx.hasPermission =
                             EvaluatePermission(memberRoles, permissionMap[key])]
    /\ UNCHANGED <<db, last, ev, audit, revoked, tx, sink>>

checkPermission ==
    /\ req.stage = "checkPermission"
    /\ \E sqlFails \in BOOLEAN :
         LET next == [req EXCEPT !.stage = "logUserAction"]
             key == req.route
         IN req' =
              IF req.ctx.internalService \/ key \notin DOMAIN permissionMap
              THEN next
              ELSE IF ~HasIdParam(req.route)
              THEN Abort([req EXCEPT !.ctx.needsPermission = TRUE], 500)
              ELSE IF sqlFails
              THEN Abort([req EXCEPT !.ctx.needsPermission = TRUE], 500)
              ELSE LET memberRoles == readMemberRoles(db, req.ctx.userId, req.group)
                   IN [next EXCEPT
                         !.ctx.needsPermission = TRUE,
                         !.memberRoles = memberRoles,
                         !.rolesRead = TRUE,
                         !.ctx.hasPermission =
                             EvaluatePermission(memberRoles, permissionMap[key])]
    /\ UNCHANGED <<db, last, ev, audit, revoked, tx, sink>>

\* The first half of logUserAction: c.Next() or the 403.
logUserAction ==
    /\ req.stage = "logUserAction"
    /\ req' = IF req.ctx.internalService \/ ~req.ctx.needsPermission
              THEN [req EXCEPT !.stage = "handler"]
              ELSE IF req.ctx.hasPermission
              THEN [req EXCEPT !.stage = "handler"]
              ELSE [req EXCEPT !.aborted = TRUE, !.status = 403, !.stage = "logEntry"]
    /\ UNCHANGED <<db, last, ev, audit, revoked, tx, sink>>

\* The route's handler runs and writes its status.
routeHandler ==
    /\ req.stage = "handler"
    /\ \E code \in HandlerStatuses(req.route) :
         req' = [req EXCEPT !.handlerRan = TRUE, !.status = code,
                   !.stage = IF req.ctx.internalService \/ ~req.ctx.needsPermission
                             THEN "done" ELSE "logEntry"]
    /\ UNCHANGED <<db, last, ev, audit, revoked, tx, sink>>

\* repository.entryChan <- entry meets the range loop of worker w: the
\* channel has no buffer, so the send ends when a waiting worker takes the
\* entry, and that worker goes on to stmt.Exec.
Receive(w) ==
    /\ sink.worker[w] = "ready"
    /\ sink' = [sink EXCEPT !.worker[w] = "insert"]

\* The second half of logUserAction, after c.Next() or the abort.
logEntry ==
    /\ req.stage = "logEntry"
    /\ req' = [req EXCEPT !.stage = "done"]
    /\ audit' =
         IF ~HasIdParam(req.route) THEN audit
         ELSE Append(audit,
                [groupId |-> req.group,
                 action |-> IF req.route \in DOMAIN permissionMap
                            THEN permissionMap[req.route] ELSE req.route,
                 status |-> StatusLabel(req.status),
                 userId |-> IF req.ctx.userId = "" THEN "None" ELSE req.ctx.userId])
    /\ \E w \in Workers : Receive(w)
    /\ UNCHANGED <<db, last, ev, revoked, tx>>

\* A failed insert turned into the failure of the request.
writeEntryFailsRequest(w) ==
    /\ sink.worker[w] = "insert"
    /\ \E ok \in BOOLEAN :
          /\ sink' = [sink EXCEPT !.worker[w] = "ready",
                                  !.outcome = IF ok THEN "stored" ELSE "dropped"]
          /\ req' = IF ok \/ req.stage = "idle" THEN req
                    ELSE [req EXCEPT !.status = 500]
    /\ UNCHANGED <<db, last, ev, audit, revoked, tx>>

\* write_worker, the body of its loop: stmt.Exec returns, with an error or
\* without; an error is printed and the entry is gone.
writeEntry(w) ==
    /\ sink.worker[w] = "insert"
    /\ \E ok \in BOOLEAN :
          sink' = [sink EXCEPT !.worker[w] = "ready",
                               !.outcome = IF ok THEN "stored" ELSE "dropped"]
    /\ UNCHANGED <<db, last, ev, req, audit, revoked, tx>>

NextReq ==
    \/ newRequest
    \/ verifyInternalServiceToken
    \/ verifyToken
    \/ checkPermission
    \/ logUserAction
    \/ routeHandler
    \/ logEntry
    \/ \E w \in Workers : writeEntry(w)

SpecReq == InitReq /\ [][NextReq]_vars

\* ------------------------------------------- concurrent transactions
\* Two requests run their transactions at the same time against the MySQL
\* server, at its default isolation level (BeginTx with empty TxOptions):
\* a plain SELECT reads the snapshot taken at the transaction's first such
\* read, with the transaction's own writes on top; a DELETE reads the
\* latest committed rows and locks what it scans until the transaction
\* ends.  The table definitions are not part of the repository, so whether
\* a DELETE finds its rows through an index (and locks those rows only) or
\* scans and locks the table is either one: tx.indexed.

Max(a, b) == IF a >= b THEN a ELSE b

\* One buffered write of a transaction, applied to a state of the tables.
ApplyWrite(d, w) ==
    CASE w.kind = "deleteUserRole" ->
           [d EXCEPT !.user_role[<<w.user, w.key>>] = 0]
      [] w.kind = "deleteOrganisationUser" ->
           [d EXCEPT !.organisation_user[<<w.user, w.key>>] = 0]
      [] w.kind = "addOrganisationUser" ->
           AddUserToOrganisationWithTx(d, w.user, w.key).db
      [] w.kind = "deleteInvitation" ->
           DeleteInvitationWithTx(d, w.user, w.key).db
      [] OTHER ->
           LET made == CreateOrganisationWithTx([d EXCEPT !.nextOrg = w.key],
                                                DefaultGroupName, w.user).db
           IN [made EXCEPT !.nextOrg = Max(d.nextOrg, w.key + 1)]

RECURSIVE ApplyWrites(_, _)
ApplyWrites(d, writes) ==
    IF writes = <<>> THEN d
    ELSE ApplyWrites(ApplyWrite(d, Head(writes)), Tail(writes))

\* What a plain SELECT of the transaction reads from, and whether this
\* SELECT is the one that takes the snapshot.
ReadView(slot) ==
    ApplyWrites(IF slot.snapshotTaken THEN slot.snapshot ELSE db, slot.writes)
WithSnapshot(slot) ==
    IF slot.snapshotTaken THEN slot
    ELSE [slot EXCEPT !.snapshotTaken = TRUE, !.snapshot = db]

\* What a DELETE of the transaction reads from.
CurrentView(slot) == ApplyWrites(db, slot.writes)

\* The lock a statement takes on a row of a table, and whether another
\* running transaction holds one that makes the statement wait.
RowLock(table, user, key) ==
    IF tx.indexed THEN <<table, user, key>> ELSE <<table, "*", 0>>
MustWait(t, table, user, key) ==
    \E o \in TxIds \ {t} : RowLock(table, user, key) \in tx.slot[o].locks

\* The stores the transactions are run against: group 1 with its two
\* members both holding its owner role, or u1 a member of exactly the two
\* groups 1 and 2, or u2 invited to group 1 and not yet a member.
TxScenario(two) ==
    LET base == Built(CreateOrganisationWithTx(EmptyDB, "Acme", "u1"))
    IN IF two = "owners"
       THEN Built(AddMemberRole(WithMember(base, TRUE), "u2", 1))
       ELSE IF two = "invited"
       THEN Built(CreateInvitation(base, "u2", 1))
       ELSE Built(AddUserToOrganisationWithTx(WithGroup2(base, TRUE), "u1", 2))

InitTx ==
    /\ \E two \in {"owners", "memberships", "invited"}, indexed \in BOOLEAN :
          /\ db = TxScenario(two)
          /\ tx = [slot |-> [t \in TxIds |-> IdleSlot], indexed |-> indexed,
                   start |-> TxScenario(two)]
    /\ last = Result("none", "none", 0, "nil")
    /\ ev = NoEval
    /\ req = NoRequest
    /\ audit = <<>>
    /\ revoked = {}
    /\ sink = NoEntries

\* The slot of transaction t becomes slot.
SetSlot(t, slot) == tx' = [tx EXCEPT !.slot[t] = slot]

\* WithTransaction begins the transaction of a removeMemberRole or a
\* removeMember request.
beginTransaction(t) ==
    /\ tx.slot[t].pc = "idle"
    /\ \E op \in {"removeMemberRole", "removeMember", "joinGroup", "rejectGroup"},
          u \in Users, k \in GroupIds :
          SetSlot(t, [tx.slot[t] EXCEPT
                        !.op = op, !.user = u, !.target = k,
                        !.pc = CASE op = "removeMemberRole" -> "selectName"
                                 [] op = "removeMember" -> "deleteOrganisationUser"
                                 [] op = "joinGroup" -> "lookupInvitation"
                                 [] OTHER -> "rejectInvitation"])
    /\ UNCHANGED <<db, last, ev, req, audit, revoked, sink>>

\* RemoveMemberRole: SELECT name FROM role WHERE id = ?
selectName(t) ==
    LET slot == WithSnapshot(tx.slot[t])
        view == ReadView(tx.slot[t])
    IN /\ tx.slot[t].pc = "selectName"
       /\ SetSlot(t,
            IF slot.target \notin DOMAIN view.role
            THEN [slot EXCEPT !.err = "NotFound", !.pc = "rollback"]
            ELSE IF view.role[slot.target].name = GroupOwner
            THEN [slot EXCEPT !.pc = "selectCount"]
            ELSE [slot EXCEPT !.pc = "deleteUserRole"])
       /\ UNCHANGED <<db, last, ev, req, audit, revoked, sink>>

\* RemoveMemberRole: SELECT COUNT(*) FROM user_role WHERE roleId = ?
selectCount(t) ==
    LET slot == WithSnapshot(tx.slot[t])
        count == CountHolders(ReadView(tx.slot[t]), slot.target)
    IN /\ tx.slot[t].pc = "selectCount"
       /\ SetSlot(t,
            IF count <= 1
            THEN [slot EXCEPT !.err = "ForbiddenOperation", !.pc = "rollback"]
            ELSE [slot EXCEPT !.pc = "deleteUserRole"])
       /\ UNCHANGED <<db, last, ev, req, audit, revoked, sink>>

\* RemoveMemberRole: DELETE FROM user_role WHERE userId = ? AND roleId = ?
deleteUserRole(t) ==
    LET slot == tx.slot[t]
        lock == RowLock("user_role", slot.user, slot.target)
        found == CurrentView(slot).user_role[<<slot.user, slot.target>>] > 0
    IN /\ slot.pc = "deleteUserRole"
       /\ ~MustWait(t, "user_role", slot.user, slot.target)
       /\ SetSlot(t, [slot EXCEPT
            !.writes = Append(@, [kind |-> "deleteUserRole", user |-> slot.user,
                                  key |-> slot.target]),
            !.locks = IF found \/ ~tx.indexed THEN @ \cup {lock} ELSE @,
            !.pc = "commit"])
       /\ UNCHANGED <<db, last, ev, req, audit, revoked, sink>>

\* RemoveUserFromOrganisationWithTx: DELETE FROM organisation_user WHERE
\* userId = ? AND organisationId = ?, then RowsAffected.
deleteOrganisationUser(t) ==
    LET slot == tx.slot[t]
        lock == RowLock("organisation_user", slot.user, slot.target)
        count == CurrentView(slot).organisation_user[<<slot.user, slot.target>>]
        locked == [slot EXCEPT
                     !.locks = IF count > 0 \/ ~tx.indexed THEN @ \cup {lock} ELSE @]
    IN /\ slot.pc = "deleteOrganisationUser"
       /\ ~MustWait(t, "organisation_user", slot.user, slot.target)
       /\ SetSlot(t,
            IF count = 0
            THEN [locked EXCEPT !.err = "NotFound", !.pc = "rollback"]
            ELSE [locked EXCEPT
                    !.writes = Append(@, [kind |-> "deleteOrganisationUser",
                                          user |-> slot.user, key |-> slot.target]),
                    !.pc = "getUserOrganisations"])
       /\ UNCHANGED <<db, last, ev, req, audit, revoked, sink>>

\* RemoveUserFromOrganisationWithTx: CALL GetUserOrganisations(?), rows.Next()
getUserOrganisations(t) ==
    LET slot == WithSnapshot(tx.slot[t])
        rows == UserOrganisations(ReadView(tx.slot[t]), slot.user)
    IN /\ tx.slot[t].pc = "getUserOrganisations"
       /\ SetSlot(t, [slot EXCEPT
            !.pc = IF rows = {} THEN "createOrganisation" ELSE "commit"])
       /\ UNCHANGED <<db, last, ev, req, audit, revoked, sink>>

\* RemoveUserFromOrganisationWithTx: CreateOrganisationWithTx(tx, "My
\* organisation", userId).  The id of the new row is a fresh uuid: the next
\* unused number, which no rollback makes available again.
createDefaultOrganisation(t) ==
    LET slot == tx.slot[t]
        id == db.nextOrg
    IN /\ slot.pc = "createOrganisation"
       /\ id \in OrgIds
       /\ tx.indexed \/ ~MustWait(t, "organisation_user", slot.user, id)
       /\ tx.indexed \/ ~MustWait(t, "user_role", slot.user, id)
       /\ db' = [db EXCEPT !.nextOrg = id + 1]
       /\ SetSlot(t, [slot EXCEPT
            !.writes = Append(@, [kind |-> "createOrganisation",
                                  user |-> slot.user, key |-> id]),
            !.pc = "commit"])
       /\ UNCHANGED <<last, ev, req, audit, revoked, sink>>

\* The lock a DELETE FROM invitation WHERE id = ? holds on the row it finds
\* by its key, and whether another transaction holds it.
InvitationLock(user, key) == <<"invitation", user, key>>
InvitationLocked(t, user, key) ==
    \E o \in TxIds \ {t} : InvitationLock(user, key) \in tx.slot[o].locks

\* joinGroup: LookupInvitation, on the plain client before the transaction
\* begins; the invitation id stands for the pending invitation of the user
\* to the group.
lookupInvitation(t) ==
    LET slot == tx.slot[t]
        found == db.invitation[<<slot.user, slot.target>>] > 0
    IN /\ slot.pc = "lookupInvitation"
       /\ SetSlot(t, IF found THEN [slot EXCEPT !.pc = "addUserToOrganisation"]
                     ELSE [slot EXCEPT !.err = "InvitationNotFound", !.pc = "done"])
       /\ last' = IF found THEN last
                  ELSE Result(slot.op, slot.user, slot.target, "InvitationNotFound")
       /\ UNCHANGED <<db, ev, req, audit, revoked, sink>>

\* joinGroup, in its transaction: AddUserToOrganisationWithTx.
addUserToOrganisation(t) ==
    LET slot == tx.slot[t]
    IN /\ slot.pc = "addUserToOrganisation"
       /\ tx.indexed \/ ~MustWait(t, "organisation_user", slot.user, slot.target)
       /\ SetSlot(t, [slot EXCEPT
            !.writes = Append(@, [kind |-> "addOrganisationUser",
                                  user |-> slot.user, key |-> slot.target]),
            !.pc = "deleteInvitation"])
       /\ UNCHANGED <<db, last, ev, req, audit, revoked, sink>>

\* joinGroup, in its transaction: DeleteInvitationWithTx.
deleteInvitation(t) ==
    LET slot == tx.slot[t]
        found == CurrentView(slot).invitation[<<slot.user, slot.target>>] > 0
    IN /\ slot.pc = "deleteInvitation"
       /\ ~InvitationLocked(t, slot.user, slot.target)
       /\ SetSlot(t, [slot EXCEPT
            !.writes = Append(@, [kind |-> "deleteInvitation",
                                  user |-> slot.user, key |-> slot.target]),
            !.locks = IF found THEN @ \cup {InvitationLock(slot.user, slot.target)}
                      ELSE @,
            !.pc = "commit"])
       /\ UNCHANGED <<db, last, ev, req, audit, revoked, sink>>

\* rejectGroup: DeleteInvitation, on the plain client.
rejectInvitation(t) ==
    LET slot == tx.slot[t]
    IN /\ slot.pc = "rejectInvitation"
       /\ ~InvitationLocked(t, slot.user, slot.target)
       /\ db' = DeleteInvitationWithTx(db, slot.user, slot.target).db
       /\ SetSlot(t, [slot EXCEPT !.pc = "done"])
       /\ last' = Result(slot.op, slot.user, slot.target, "nil")
       /\ UNCHANGED <<ev, req, audit, revoked, sink>>

\* WithTransaction: the callback returned nil, CommitTransaction.
commitTransaction(t) ==
    LET slot == tx.slot[t]
    IN /\ slot.pc = "commit"
       /\ db' = ApplyWrites(db, slot.writes)
       /\ SetSlot(t, [slot EXCEPT !.locks = {}, !.pc = "done"])
       /\ last' = Result(slot.op, slot.user, slot.target, "nil")
       /\ UNCHANGED <<ev, req, audit, revoked, sink>>

\* WithTransaction: the callback returned an error, RollbackTransaction.
rollbackTransaction(t) ==
    LET slot == tx.slot[t]
    IN /\ slot.pc = "rollback"
       /\ SetSlot(t, [slot EXCEPT !.locks = {}, !.writes = <<>>, !.pc = "done"])
       /\ last' = Result(slot.op, slot.user, slot.target, slot.err)
       /\ UNCHANGED <<db, ev, req, audit, revoked, sink>>

NextTx ==
    \/ \E t \in TxIds : beginTransaction(t)
    \/ \E t \in TxIds : selectName(t)
    \/ \E t \in TxIds : selectCount(t)
    \/ \E t \in TxIds : deleteUserRole(t)
    \/ \E t \in TxIds : deleteOrganisationUser(t)
    \/ \E t \in TxIds : getUserOrganisations(t)
    \/ \E t \in TxIds : createDefaultOrganisation(t)
    \/ \E t \in TxIds : lookupInvitation(t)
    \/ \E t \in TxIds : addUserToOrganisation(t)
    \/ \E t \in TxIds : deleteInvitation(t)
    \/ \E t \in TxIds : rejectInvitation(t)
    \/ \E t \in TxIds : commitTransaction(t)
    \/ \E t \in TxIds : rollbackTransaction(t)

SpecTx == InitTx /\ [][NextTx]_vars

\* ------------------------------------------------------ the audit sink
\* Goroutine c calls NewEntry and reaches repository.entryChan <- entry.
callNewEntry(c) ==
    /\ sink.caller[c] = "idle"
    /\ sink' = [sink EXCEPT !.caller[c] = "sending"]
    /\ UNCHANGED <<db, last, ev, req, audit, revoked, tx>>

\* The send of caller c meets the receive of worker w; NewEntry returns.
handOver(c, w) ==
    /\ sink.caller[c] = "sending"
    /\ sink.worker[w] = "ready"
    /\ sink' = [sink EXCEPT !.caller[c] = "returned", !.worker[w] = "insert"]
    /\ UNCHANGED <<db, last, ev, req, audit, revoked, tx>>

\* The goroutine goes on, and may call NewEntry again.
leaveNewEntry(c) ==
    /\ sink.caller[c] = "returned"
    /\ sink' = [sink EXCEPT !.caller[c] = "idle"]
    /\ UNCHANGED <<db, last, ev, req, audit, revoked, tx>>

NextLog ==
    \/ \E c \in Callers : callNewEntry(c)
    \/ \E c \in Callers, w \in Workers : handOver(c, w)
    \/ \E c \in Callers : leaveNewEntry(c)
    \/ \E w \in Workers : writeEntry(w)

\* A send that can meet a receive again and again does meet one; the
\* database is under no obligation to answer an insert.
SpecLog ==
    /\ Init
    /\ [][NextLog]_vars
    /\ \A c \in Callers : SF_vars(\E w \in Workers : handOver(c, w))

\* ------------------------------------------------------------------ claims
\* The "Group Owner" roles of group g.
OwnerRolesOf(d, g) ==
    {r \in DOMAIN d.role : d.role[r].groupId = g /\ d.role[r].name = GroupOwner}

\* Role r is a "Group Owner" role held by exactly the users of S, one row each.
OwnerHeldByExactly(d, r, S) ==
    /\ r \in DOMAIN d.role
    /\ d.role[r].name = GroupOwner
    /\ \A u \in Users : d.user_role[<<u, r>>] = IF u \in S THEN 1 ELSE 0

\* C1: after any sequence of createGroup, addMemberRole and removeMemberRole,
\* the "Group Owner" role of every created group is referenced by at least one
\* user_role row.
C1_OwnerAlwaysHeld ==
    \A g \in DOMAIN db.organisation :
        \A r \in OwnerRolesOf(db, g) : CountHolders(db, r) >= 1

\* C2: a user who is in a group before a completed removeUserFromGroup or
\* deleteGroupCascade, whether the requester or any other member, is in at
\* least one group after it.
C2_Step ==
    ( /\ last'.op \in {"removeMember", "deleteGroup"}
      /\ last'.err = "nil" )
    => \A u \in Users :
          UserOrganisations(db, u) # {} => UserOrganisations(db', u) # {}

C2_NeverGroupless == [][C2_Step]_vars

\* The roles user u holds through a user_role row that group g owns, while u
\* is a member of g.
RolesHeldIn(d, u, g) ==
    {r \in DOMAIN d.role :
        /\ u \in Users
        /\ d.user_role[<<u, r>>] > 0
        /\ d.role[r].groupId = g
        /\ d.organisation_user[<<u, g>>] > 0}

\* C3: the roles readMemberRoles(u, g) returns to checkPermission are exactly
\* the roles u holds that group g owns while u is a member of g; none of them
\* is owned by another group.
C3_ReadMemberRolesScoped ==
    req.stage # "idle" /\ req.rolesRead =>
        /\ {req.memberRoles[i].id : i \in 1..Len(req.memberRoles)}
              = RolesHeldIn(db, req.ctx.userId, req.group)
        /\ \A i \in 1..Len(req.memberRoles) : req.memberRoles[i].groupId = req.group

\* C4: a request without internal-service header to a capability-guarded
\* route, with a valid token of a member of the target group whose roles in
\* that group all lack the capability, once its roles were read without a
\* database error, ends with 403, without the handler,
\* and with exactly one audit entry, of status "Forbidden".
C4_DeniedAndAudited ==
    ( /\ req.stage = "done"
      /\ req.internal = "none"
      /\ req.route \in DOMAIN permissionMap
      /\ req.authorization = "bearer"
      /\ req.subject \in Users
      /\ req.ctx.userId = req.subject
      /\ req.rolesRead
      /\ db.organisation_user[<<req.subject, req.group>>] > 0
      /\ \A r \in RolesHeldIn(db, req.subject, req.group) :
            ~db.role[r].flags[permissionMap[req.route]] )
    => ( /\ req.status = 403
         /\ ~req.handlerRan
         /\ Len(audit) = 1
         /\ audit[1].status = "Forbidden" )

\* Both transactions have ended, and they were the two requests named.
BothRan(op, u1, k1, u2, k2) ==
    /\ \A t \in TxIds : tx.slot[t].pc = "done" /\ tx.slot[t].op = op
    /\ tx.slot["t1"].user = u1 /\ tx.slot["t1"].target = k1
    /\ tx.slot["t2"].user = u2 /\ tx.slot["t2"].target = k2

\* C5: when the Group Owner role R of a group has exactly the two holders U1
\* and U2 and removeMemberRole(U1, R) and removeMemberRole(U2, R) run
\* concurrently, R still has a holder after both have finished.
C5_ConcurrentRemovalsKeepOwner ==
    \A u1 \in Users, u2 \in Users, r \in RoleIds :
        ( /\ u1 # u2
          /\ BothRan("removeMemberRole", u1, r, u2, r)
          /\ r \in DOMAIN tx.start.role
          /\ tx.start.role[r].name = GroupOwner
          /\ OwnerHeldByExactly(tx.start, r, {u1, u2}) )
        => CountHolders(db, r) >= 1

\* C6: when U belongs to exactly the two groups G1 and G2 and
\* removeUserFromGroup(U, G1) and removeUserFromGroup(U, G2) run concurrently,
\* U has a membership after both have committed.
C6_ConcurrentRemovalsKeepMembership ==
    \A u \in Users, g1 \in GroupIds, g2 \in GroupIds :
        ( /\ g1 # g2
          /\ BothRan("removeMember", u, g1, u, g2)
          /\ \A t \in TxIds : tx.slot[t].err = "nil"
          /\ UserOrganisations(tx.start, u) = {g1, g2} )
        => UserOrganisations(db, u) # {}

\* C7: no updateRoles call changes the name or the flags of a stored role
\* named "Group Owner", whatever the input list holds.
C7_Step ==
    (last'.op = "updateRoles") =>
        \A r \in DOMAIN db.role :
            db.role[r].name = GroupOwner =>
                /\ r \in DOMAIN db'.role
                /\ db'.role[r].name = db.role[r].name
                /\ db'.role[r].flags = db.role[r].flags

C7_UpsertKeepsOwnerRole == [][C7_Step]_vars

\* C8: deleteRole of the id of a "Group Owner" role removes neither the role
\* nor any of its user_role rows.
C8_Step ==
    \A r \in DOMAIN db.role :
        ( /\ db.role[r].name = GroupOwner
          /\ last' = Result("deleteRole", "none", r, last'.err) )
        => ( /\ r \in DOMAIN db'.role
             /\ \A u \in Users : db'.user_role[<<u, r>>] = db.user_role[<<u, r>>] )

C8_OwnerRoleNotDeleted == [][C8_Step]_vars

\* C10: with the owner role r held by exactly u1 and u2 (one row each),
\* removeMemberRole(u1, r) succeeds and leaves exactly u2's row; the
\* removeMemberRole(u2, r) that follows fails with ForbiddenOperation and
\* changes nothing.
C10_Step ==
    \A u1 \in Users, u2 \in Users, r \in RoleIds :
        (u1 # u2) =>
            /\ ( /\ OwnerHeldByExactly(db, r, {u1, u2})
                 /\ last' = Result("removeMemberRole", u1, r, last'.err) )
               => ( /\ last'.err = "nil"
                    /\ OwnerHeldByExactly(db', r, {u2})
                    /\ db' = [db EXCEPT !.user_role[<<u1, r>>] = 0] )
            /\ ( /\ last = Result("removeMemberRole", u1, r, "nil")
                 /\ OwnerHeldByExactly(db, r, {u2})
                 /\ last' = Result("removeMemberRole", u2, r, last'.err) )
               => ( /\ last'.err = "ForbiddenOperation"
                    /\ db' = db )

C10_RemoveThenForbidden == [][C10_Step]_vars

\* The first removal has succeeded and the second is about to be made.
C10_Witness ==
    \E u1 \in Users, u2 \in Users, r \in RoleIds :
        /\ u1 # u2
        /\ last = Result("removeMemberRole", u1, r, "nil")
        /\ OwnerHeldByExactly(db, r, {u2})


\* C9: EvaluatePermission returns true exactly when some role of the list has
\* the flag named by the capability set; it returns false for the empty list
\* and for every name outside the ten capability names.
C9_EvaluateIffSomeRoleHasFlag ==
    ev.called =>
        /\ ev.result =
              ( /\ ev.capability \in Capabilities
                /\ \E i \in 1..Len(ev.roles) : ev.roles[i].flags[ev.capability] )
        /\ (ev.roles = <<>> => ~ev.result)
        /\ (ev.capability \notin Capabilities => ~ev.result)

\* A list whose second role alone has the flag asked for evaluates to true.
C9_Witness ==
    /\ ev.called
    /\ ev.result
    /\ Len(ev.roles) = 2
    /\ ev.capability = DELETE_GROUP
    /\ ~ev.roles[1].flags[DELETE_GROUP]
    /\ ev.roles[2].flags[DELETE_GROUP]
    /\ ~ev.roles[2].flags[RENAME_GROUP]

\* C11: when user U belongs only to group G, removeUserFromGroup(U, G)
\* succeeds and afterwards U has exactly one membership, to a group that did
\* not exist before the call and is named "My organisation".
C11_Step ==
    \A u \in Users, g \in GroupIds :
        ( /\ UserOrganisations(db, u) = {g}
          /\ last' = Result("removeMember", u, g, last'.err) )
        => /\ last'.err = "nil"
           /\ MembershipCount(db', u) = 1
           /\ \E n \in OrgIds \ DOMAIN db.organisation :
                 /\ UserOrganisations(db', u) = {n}
                 /\ db'.organisation[n] = DefaultGroupName

C11_LastGroupReplacedByDefault == [][C11_Step]_vars

\* A user whose only group was just left is now in a default group.
C11_Witness ==
    \E u \in Users, g \in GroupIds :
        /\ last = Result("removeMember", u, g, "nil")
        /\ g \in DOMAIN db.organisation
        /\ \E n \in DOMAIN db.organisation :
              /\ UserOrganisations(db, u) = {n}
              /\ db.organisation[n] = DefaultGroupName

\* C12: removeMemberRole(U, r) with a role id r that resolves to no existing
\* role fails with NotFound, and the UserRole rows after the call are those
\* before it.
C12_Step ==
    \A u \in Users, r \in RoleIds :
        ( /\ r \notin DOMAIN db.role
          /\ last' = Result("removeMemberRole", u, r, last'.err) )
        => /\ last'.err = "NotFound"
           /\ db'.user_role = db.user_role

C12_UnknownRoleNotFound == [][C12_Step]_vars

\* A removal of a role id that no role has was refused, while the user holds
\* a role that exists.
C12_Witness ==
    \E u \in Users, r \in RoleIds :
        /\ last = Result("removeMemberRole", u, r, "NotFound")
        /\ r \notin DOMAIN db.role
        /\ \E held \in DOMAIN db.role : db.user_role[<<u, held>>] > 0

\* C13: for every role whose name is not "Group Owner", upsertRoles([role],
\* groupId) followed by readRoles(groupId) returns a list that contains a
\* role with the same id and the same ten capability flags, whether or not a
\* role with that id existed before the call.
C13_UpsertThenReadContains ==
    \A g \in DOMAIN db.organisation :
      \A role \in RoleInputs(db) :
        role.name # GroupOwner =>
          \A out \in updateRolesOutcomes(db, <<role>>, g) :
            out.err = "nil" =>
              \E i \in 1..Len(ReadRoles(out.db, g)) :
                 /\ ReadRoles(out.db, g)[i].id = role.id
                 /\ ReadRoles(out.db, g)[i].flags = role.flags

\* C14: after group G is created with owner U1, readMemberRoles(U1, G)
\* contains a role that has all ten capability flags true.
C14_Step ==
    \A u \in Users, g \in GroupIds :
        last' = Result("createGroup", u, g, "nil")
        => \E i \in 1..Len(readMemberRoles(db', u, g)) :
              \A c \in Capabilities : readMemberRoles(db', u, g)[i].flags[c]

C14_CreatorHoldsEveryCapability == [][C14_Step]_vars

\* The second group was just created, by a user who was in a group already.
C14_Witness ==
    \E u \in Users, g \in GroupIds :
        /\ last = Result("createGroup", u, g, "nil")
        /\ g \in DOMAIN db.organisation
        /\ UserOrganisations(db, u) # {g}
        /\ Len(readMemberRoles(db, u, g)) > 0

\* C15: NewEntry returns to its caller without waiting for any database
\* write: whatever the state of the five write workers, all of them being
\* inside a slow insert included, every NewEntry call completes.
C15_NewEntryCompletes ==
    \A c \in Callers :
        (sink.caller[c] = "sending") ~> (sink.caller[c] = "returned")

\* C16: the persistence of a guarded request's audit entry, whether it
\* succeeds or fails, changes neither the response of the request nor the
\* stored business data.
C16_Step ==
    (\E w \in Workers : sink.worker[w] = "insert" /\ sink'.worker[w] = "ready")
    => /\ req' = req
       /\ db' = db

Ended(op, u, g) ==
    \E t \in TxIds :
        /\ tx.slot[t].pc = "done" /\ tx.slot[t].err = "nil"
        /\ tx.slot[t].op = op /\ tx.slot[t].user = u /\ tx.slot[t].target = g

\* C17: an invitation is consumed exactly once: once accepted or rejected
\* it is deleted, and all the accept requests for it together create at
\* most one membership.
C17_InvitationConsumedOnce ==
    \A u \in Users, g \in GroupIds :
        ( /\ tx.start.invitation[<<u, g>>] = 1
          /\ tx.start.organisation_user[<<u, g>>] = 0 )
        => /\ (Ended("joinGroup", u, g) \/ Ended("rejectGroup", u, g))
                => db.invitation[<<u, g>>] = 0
           /\ (Ended("joinGroup", u, g) /\ ~Ended("removeMember", u, g))
                => db.organisation_user[<<u, g>>] >= 1
           /\ db.organisation_user[<<u, g>>] <= 1

\* The number of membership rows of group g.
MembersOf(d, g) == SumOver(d.organisation_user, Users \X {g})

\* C18: no existing group reaches zero memberships as the result of
\* removeUserFromGroup: every group that exists after the removal and had a
\* member before it still has one.
C18_Step ==
    ( /\ last'.op = "removeMember"
      /\ last'.err = "nil" )
    => \A g \in DOMAIN db'.organisation :
          (g \in DOMAIN db.organisation /\ MembersOf(db, g) >= 1)
              => MembersOf(db', g) >= 1

C18_NoGroupEmptied == [][C18_Step]_vars

\* verifyToken has dealt with the request.
PastVerifyToken ==
    req.stage \in {"checkPermission", "logUserAction", "handler", "logEntry", "done"}

\* C19: on a non-exempt path, a request whose bearer token verifies at the
\* identity provider but whose subject has no row in the local User store
\* is rejected (no subject id is bound to it, its handler does not run) and
\* the provider-side session of the subject is revoked.
C19_UnknownSubjectRejected ==
    ( /\ PastVerifyToken
      /\ req.internal = "none"
      /\ ~IsExempt(req.route)
      /\ req.authorization = "bearer"
      /\ req.subject \in Subjects \ Users )
    => /\ req.aborted
       /\ req.status = 403
       /\ req.ctx.userId = ""
       /\ ~req.handlerRan
       /\ req.subject \in revoked

\* verifyInternalServiceToken has dealt with the request.
PastInternalCheck ==
    req.stage \notin {"idle", "verifyInternalServiceToken"}

\* C20: a request whose X-Internal-Token header validates is marked internal
\* and passes the later stages with no bearer-token verification, no
\* permission lookup and no audit entry; a request whose header is present
\* and fails validation gets a terminal 403 and no later stage or handler
\* runs.
C20_InternalTokenDecides ==
    /\ (PastInternalCheck /\ req.internal = "valid")
       => /\ req.ctx.internalService
          /\ ~req.aborted
          /\ req.ctx.userId = ""
          /\ revoked = {}
          /\ ~req.ctx.needsPermission
          /\ ~req.rolesRead
          /\ audit = <<>>
          /\ sink = NoEntries
          /\ (req.stage = "done" => req.handlerRan)
    /\ (PastInternalCheck /\ req.internal = "invalid")
       => /\ req.stage = "done"
          /\ req.aborted
          /\ req.status = 403
          /\ ~req.ctx.internalService
          /\ req.ctx.userId = ""
          /\ ~req.rolesRead
          /\ ~req.handlerRan
          /\ audit = <<>>

\* A request with a valid internal token and no Authorization header has
\* had the handler of a capability-guarded route run.
C20_Witness ==
    /\ req.stage = "done"
    /\ req.internal = "valid"
    /\ req.authorization = "none"
    /\ req.route = DeleteRoute
    /\ req.handlerRan

\* C21: removeUserFromGroup(U, G) when U has no membership in G fails with
\* NotFound and changes nothing: no membership is deleted and no default
\* group is created.
C21_Step ==
    \A u \in Users, g \in GroupIds :
        ( /\ db.organisation_user[<<u, g>>] = 0
          /\ last' = Result("removeMember", u, g, last'.err) )
        => /\ last'.err = "NotFound"
           /\ db' = db

C21_RemovalOfNonMemberNotFound == [][C21_Step]_vars

\* A removal was refused for a user who is in no group at all, in a store
\* that has a group.
C21_Witness ==
    \E u \in Users, g \in GroupIds :
        /\ last = Result("removeMember", u, g, "NotFound")
        /\ UserOrganisations(db, u) = {}
        /\ g \in DOMAIN db.organisation

\* The chain of router.Use, then the route's handler; "logEntry" is the part
\* of logUserAction after c.Next() returns.
StageRank(stage) ==
    CASE stage = "idle" -> 0
      [] stage = "verifyInternalServiceToken" -> 1
      [] stage = "verifyToken" -> 2
      [] stage = "checkPermission" -> 3
      [] stage = "logUserAction" -> 4
      [] stage = "handler" -> 5
      [] stage = "logEntry" -> 6
      [] OTHER -> 7

\* C22: the stages run in the fixed order internal-service check, identity
\* verification, permission resolution, decision enforcement with audit, and
\* once a stage has produced a terminal response no later stage and no
\* handler runs.
C22_Step ==
    req' # req =>
       /\ req.stage # "done"
       /\ \/ StageRank(req'.stage) = StageRank(req.stage) + 1
          \/ req'.stage = "done" /\ req.stage = "handler"
          \/ req'.stage = "done" /\ req'.aborted /\ StageRank(req.stage) \in 1..3
          \/ req'.stage = "logEntry" /\ req'.aborted /\ req.stage = "logUserAction"
       /\ req'.aborted => ~req'.handlerRan
       /\ (req.stage # "idle" /\ req.aborted) => req'.stage = "done"

C22_StagesInOrderAbortIsFinal == [][C22_Step]_vars

\* Identity verification answered 400 and the request ended there.
C22_Witness ==
    /\ req.stage = "done"
    /\ req.aborted
    /\ req.status = 400
    /\ ~req.handlerRan
    /\ ~req.ctx.needsPermission
    /\ audit = <<>>

C24_MissingGroupIdIsInternalError ==
    ( /\ req.stage # "idle"
      /\ req.ctx.needsPermission
      /\ req.route \in DOMAIN permissionMap
      /\ ~HasIdParam(req.route) )
    => /\ req.stage = "done"
       /\ req.aborted
       /\ req.status = 500
       /\ ~req.handlerRan
       /\ audit = <<>>

\* A member of the target group asked for an invitation on the route that
\* carries no :id, and the request ended in permission resolution.
C24_Witness ==
    /\ req.stage = "done"
    /\ req.route = InviteRoute
    /\ req.ctx.needsPermission
    /\ req.ctx.userId \in Users
    /\ db.organisation_user[<<req.ctx.userId, req.group>>] > 0
    /\ req.status = 500
    /\ ~req.rolesRead

\* C25: for each guarded route of the permission table (rename group, delete
\* group, invite member, remove member), a request with a valid token from a
\* member who holds a role with the required capability in the target group
\* reaches the route handler; the pipeline never answers it with an error.
\* Requests during which a database statement of the pipeline failed are
\* left out.
C25_EntitledRequestReachesHandler ==
    ( /\ req.stage = "done"
      /\ req.internal = "none"
      /\ req.route \in DOMAIN permissionMap
      /\ req.authorization = "bearer"
      /\ req.subject \in Users
      /\ req.subject \notin revoked
      /\ HasIdParam(req.route) => req.rolesRead
      /\ \E r \in RolesHeldIn(db, req.subject, req.group) :
            db.role[r].flags[permissionMap[req.route]] )
    => /\ req.handlerRan
       /\ ~req.aborted

\* The labels the claim gives to the response codes it names.
C26_Label ==
    (200 :> "OK") @@ (409 :> "OK") @@ (403 :> "Forbidden") @@
    (400 :> "Error") @@ (500 :> "Error") @@ (401 :> "Unauthorized")

\* C26: for a guarded request that is allowed, exactly one audit entry is
\* handed to the sink, after the route handler has produced its response, and
\* its status is the label of the final response code (200 and 409 give OK,
\* 403 gives Forbidden, 400 and 500 give Error, 401 gives Unauthorized); a
\* request to a route with no required capability produces no audit entry.
C26_AllowedRequestAuditedOnce ==
    /\ \A code \in DOMAIN C26_Label : StatusLabel(code) = C26_Label[code]
    /\ req.stage # "idle" =>
         /\ ( /\ req.ctx.needsPermission
              /\ req.rolesRead
              /\ req.ctx.hasPermission )
            => IF req.stage = "done"
               THEN /\ req.handlerRan
                    /\ Len(audit) = 1
                    /\ req.status \in DOMAIN C26_Label
                    /\ audit[1].status = C26_Label[req.status]
                    /\ \/ \E w \in Workers : sink.worker[w] = "insert"
                       \/ sink.outcome # "none"
               ELSE audit = <<>>
         /\ req.route \notin DOMAIN permissionMap => audit = <<>>

\* An allowed rename ended with the handler's 400 and one entry labelled
\* Error.
C26_Witness ==
    /\ req.stage = "done"
    /\ req.route = UpdateRoute
    /\ req.ctx.hasPermission
    /\ req.handlerRan
    /\ req.status = 400
    /\ Len(audit) = 1
    /\ audit[1].status = "Error"

\* A request to a route outside the permission table ended after its handler.
C26_WitnessUnguarded ==
    /\ req.stage = "done"
    /\ req.route = MembersRoute
    /\ req.handlerRan
    /\ audit = <<>>

\* ------------------------------------------- WithTransaction, step by step
\* One handler that wraps a repository function in WithTransaction.  In this
\* specification tx holds the call: its position, the local variable err,
\* what fn returned (fnErr), the value the return statement evaluated (ret),
\* the state of the sql.Tx (done; pending: the rows as the transaction sees
\* them; start: the rows when it began) and the response of the handler.
WtOps == {"deleteGroup", "removeMember", "updateRoles", "createGroup"}

NoCall ==
    [pc |-> "idle", op |-> "none", user |-> "none", target |-> 0,
     roles |-> <<>>, failed |-> <<>>,
     err |-> "nil", fnErr |-> "unset", ret |-> "unset", panicked |-> FALSE,
     done |-> FALSE, ends |-> 0, commitCalls |-> 0, commits |-> 0,
     rollbacks |-> 0, commitFailed |-> FALSE,
     start |-> EmptyDB, pending |-> EmptyDB, status |-> 0]

InitWt ==
    /\ \E own \in BOOLEAN, joined \in BOOLEAN, option \in RoleOptions :
          db = Scenario(own, joined, option)
    /\ last = Result("none", "none", 0, "nil")
    /\ ev = NoEval
    /\ req = NoRequest
    /\ audit = <<>>
    /\ revoked = {}
    /\ tx = NoCall
    /\ sink = NoEntries

\* The bodies of POST /api/group/:id/role/update the model sends: two roles,
\* none of them named "Group Owner", with stored or new ids.
BatchRoles(d) ==
    [id : DOMAIN d.role \cup CustomRoleIds,
     name : {"Admin", "Editor"},
     flags : {AllFalse, AllTrue}]
Batches(d) == {<<a, b>> : a \in BatchRoles(d), b \in BatchRoles(d)}

\* One statement of a goroutine of updateRoles, with its failures: it does
\* what UnitStep says, or the statement returns an error and the goroutine
\* ends.
UnitOutcomes(d, role, groupId, unit) ==
    {UnitStep(d, role, groupId, unit)} \cup
    IF role.name = GroupOwner THEN {}
    ELSE {[db |-> d,
           err |-> IF unit.phase = "check" THEN "ErrSelect"
                   ELSE IF unit.exists THEN "ErrUpdate" ELSE "ErrInsert",
           unit |-> [phase |-> "done", exists |-> unit.exists]]}

\* Every run of the goroutines of updateRoles: the rows at wg.Wait() and the
\* errors of the failed statements, in the order in which they failed.
RECURSIVE UpdateRolesFailures(_, _, _, _, _)
UpdateRolesFailures(d, roles, groupId, units, failed) ==
    LET pending == {i \in 1..Len(roles) : units[i].phase # "done"}
    IN IF pending = {} THEN {[db |-> d, failed |-> failed]}
       ELSE UNION {
              UNION {
                UpdateRolesFailures(step.db, roles, groupId,
                                    [units EXCEPT ![i] = step.unit],
                                    IF step.err # "nil"
                                    THEN Append(failed, step.err) ELSE failed)
                : step \in UnitOutcomes(d, roles[i], groupId, units[i])}
              : i \in pending}

\* return _err.  Each failing goroutine assigns its error to the shared _err
\* without synchronisation, some time after its statement failed: the value
\* read after wg.Wait() is the error of whichever goroutine wrote last.
updateRolesReturns(d, roles, groupId) ==
    LET runs == UpdateRolesFailures(d, roles, groupId,
                   [i \in 1..Len(roles) |-> [phase |-> "check", exists |-> FALSE]],
                   <<>>)
    IN UNION {
         {[db |-> run.db, failed |-> run.failed, err |-> e]
            : e \in IF run.failed = <<>> THEN {"nil"}
                    ELSE {run.failed[k] : k \in 1..Len(run.failed)}}
         : run \in runs}

\* fmt.Errorf("%w: %v", sentinel, err): a new error value that wraps the
\* sentinel.  errors.Is finds the sentinel in it; == does not.
ErrorfWrap(sentinel) ==
    IF sentinel = "NotFound" THEN "Errorf(NotFound)" ELSE "Errorf(Other)"
ErrorsIs(err, sentinel) == err = sentinel \/ err = ErrorfWrap(sentinel)

\* The function the handler passes to WithTransaction.  The error of
\* RemoveUserFromOrganisationWithTx for a removal that deleted no row is the
\* value fmt.Errorf built around types.ErrNotFound.
Callback(op, d, userId, groupId) ==
    IF op = "deleteGroup" THEN DeleteGroupWithTx(d, userId, groupId)
    ELSE LET res == RemoveUserFromOrganisationWithTx(d, userId, groupId)
         IN [res EXCEPT !.err = IF @ = "NotFound" THEN ErrorfWrap("NotFound")
                                 ELSE @]

\* CreateOrganisationWithTx up to the failure of its statement number
\* failing: the inserts into organisation, organisation_user, role and
\* user_role before it were executed, the function returns ErrGenericSQL.
CreateOrganisationFailing(d, name, userId, failing) ==
    LET g == d.nextOrg
        d1 == [d EXCEPT !.organisation = (g :> name) @@ @, !.nextOrg = @ + 1]
        d2 == [d1 EXCEPT !.organisation_user[<<userId, g>>] = @ + 1]
        d3 == CreateGroupOwnerRoleUnmapped(d2, g, userId)
    IN Fail(CASE failing = 1 -> d [] failing = 2 -> d1 [] failing = 3 -> d2
              [] OTHER -> d3,
            "GenericSQL")

\* What fn can return, and the rows it leaves in the transaction.
CallbackOutcomes(t) ==
    IF t.op = "updateRoles"
    THEN updateRolesReturns(t.pending, t.roles, t.target)
    ELSE IF t.op = "createGroup"
    THEN LET done == CreateOrganisationWithTx(t.pending, "Acme", t.user)
         IN {[db |-> done.db, err |-> done.err, failed |-> <<>>]} \cup
            {[db |-> CreateOrganisationFailing(t.pending, "Acme", t.user, k).db,
              err |-> "GenericSQL", failed |-> <<>>] : k \in 1..4}
    ELSE LET res == Callback(t.op, t.pending, t.user, t.target)
         IN {[db |-> res.db, err |-> res.err, failed |-> <<>>]}

\* The calls the model makes.
Calls(d) ==
    [op : {"deleteGroup", "removeMember"}, user : Users, target : GroupIds,
     roles : {<<>>}]
    \cup [op : {"updateRoles"}, user : {"none"}, target : GroupIds,
          roles : Batches(d)]
    \cup [op : {"createGroup"}, user : Users,
          target : {d.nextOrg} \cap OrgIds, roles : {<<>>}]

\* tx.Rollback(): sql.ErrTxDone, and no effect, once the transaction is over.
RollbackTransaction(t) ==
    IF t.done THEN t
    ELSE [t EXCEPT !.done = TRUE, !.ends = @ + 1, !.rollbacks = @ + 1]

\* CommitTransaction: tx.Commit(), and tx.Rollback() when it fails.
\* "ok": committed.  "fails": the driver's commit fails, the sql.Tx is done
\* and the Rollback that follows returns ErrTxDone.  "cancelled": the request
\* context is over, Commit returns its error and the Rollback ends the
\* transaction.
CommitTransaction(t, outcome) ==
    LET called == [t EXCEPT !.commitCalls = @ + 1]
    IN CASE outcome = "ok" ->
              [called EXCEPT !.done = TRUE, !.ends = @ + 1, !.commits = @ + 1,
                             !.err = "nil"]
         [] outcome = "fails" ->
              [RollbackTransaction([called EXCEPT !.done = TRUE, !.ends = @ + 1])
                  EXCEPT !.commitFailed = TRUE, !.err = "ErrRollback"]
         [] OTHER ->
              [RollbackTransaction(called)
                  EXCEPT !.commitFailed = TRUE, !.err = "ErrTxCommit"]

\* The handler calls WithTransaction; NewTransaction begins the transaction
\* or fails, and then WithTransaction returns that error.
withTransactionBegin ==
    /\ tx.pc = "idle"
    /\ \E call \in Calls(db), beginFails \in BOOLEAN :
          LET entered == [NoCall EXCEPT !.op = call.op, !.user = call.user,
                                        !.target = call.target,
                                        !.roles = call.roles]
          IN tx' = IF beginFails
                   THEN [entered EXCEPT !.err = "ErrBegin", !.ret = "ErrBegin",
                                        !.pc = "respond"]
                   ELSE [entered EXCEPT !.start = db, !.pending = db,
                                        !.pc = "callback"]
    /\ UNCHANGED <<db, last, ev, req, audit, revoked, sink>>

\* err = fn(tx): fn returns what the repository function returns, or it
\* fails outside the modelled statements (a Prepare, a CALL; before or after
\* its writes), or it panics.
callback ==
    /\ tx.pc = "callback"
    /\ \E res \in CallbackOutcomes(tx),
          outcome \in {"returns", "sqlError", "panics"}, written \in BOOLEAN :
             tx' =
               CASE outcome = "returns" ->
                      [tx EXCEPT !.pending = res.db, !.err = res.err,
                                 !.fnErr = res.err, !.failed = res.failed,
                                 !.pc = "return"]
                 [] outcome = "sqlError" ->
                      [tx EXCEPT !.pending = IF written THEN res.db ELSE @,
                                 !.err = "ErrSql", !.fnErr = "ErrSql",
                                 !.pc = "return"]
                 [] OTHER ->
                      [tx EXCEPT !.pending = IF written THEN res.db ELSE @,
                                 !.panicked = TRUE, !.pc = "deferred"]
    /\ UNCHANGED <<db, last, ev, req, audit, revoked, sink>>

\* return err: the result of WithTransaction has no name, so the value is
\* fixed here, before the deferred function runs.
returnErr ==
    /\ tx.pc = "return"
    /\ tx' = [tx EXCEPT !.ret = tx.err, !.pc = "deferred"]
    /\ UNCHANGED <<db, last, ev, req, audit, revoked, sink>>

\* The deferred function without its test of err: it commits whatever fn
\* returned.
deferredWithoutErrCheck ==
    /\ tx.pc = "deferred"
    /\ IF tx.panicked
       THEN /\ tx' = [RollbackTransaction(tx) EXCEPT !.pc = "panicked"]
            /\ UNCHANGED db
       ELSE \E outcome \in {"ok", "fails", "cancelled"} :
               /\ tx' = [CommitTransaction(tx, outcome) EXCEPT !.pc = "respond"]
               /\ db' = IF outcome = "ok" THEN tx.pending ELSE db
    /\ UNCHANGED <<last, ev, req, audit, revoked, sink>>

\* The deferred function: rollback and panic again after a panic, rollback
\* when err is set, otherwise err = CommitTransaction(tx).
deferred ==
    /\ tx.pc = "deferred"
    /\ IF tx.panicked
       THEN /\ tx' = [RollbackTransaction(tx) EXCEPT !.pc = "panicked"]
            /\ UNCHANGED db
       ELSE IF tx.err # "nil"
       THEN /\ tx' = [RollbackTransaction(tx) EXCEPT !.pc = "respond"]
            /\ UNCHANGED db
       ELSE \E outcome \in {"ok", "fails", "cancelled"} :
               /\ tx' = [CommitTransaction(tx, outcome) EXCEPT !.pc = "respond"]
               /\ db' = IF outcome = "ok" THEN tx.pending ELSE db
    /\ UNCHANGED <<last, ev, req, audit, revoked, sink>>

\* removeMember after WithTransaction: switch err { case types.ErrNotFound:
\* 404; default: 500 }, a comparison of the error value with the sentinel;
\* without an error 200 or, when reading the user or sending the mail
\* fails, 500.
removeMemberStatuses(err) ==
    IF err = "nil" THEN {200, 500}
    ELSE IF err = "NotFound" THEN {404}
    ELSE {500}

\* The handler after WithTransaction: deleteGroup, updateRoles and
\* createOrganisation answer 500 when it returned an error and 200 when it
\* did not.
respond ==
    /\ tx.pc = "respond"
    /\ \E code \in (IF tx.op = "removeMember" THEN removeMemberStatuses(tx.ret)
                    ELSE IF tx.ret # "nil" THEN {500} ELSE {200}) :
          tx' = [tx EXCEPT !.status = code, !.pc = "answered"]
    /\ last' = Result(tx.op, tx.user, tx.target, tx.ret)
    /\ UNCHANGED <<db, ev, req, audit, revoked, sink>>

NextWt ==
    \/ withTransactionBegin
    \/ callback
    \/ returnErr
    \/ deferred
    \/ respond

SpecWt == InitWt /\ [][NextWt]_vars

\* C27: when the commit fails, WithTransaction returns a non-nil error, so
\* the handler answers 500 and never reports success.
C27_CommitFailureReported ==
    (tx.pc = "answered" /\ tx.commitFailed)
    => /\ tx.ret # "nil"
       /\ tx.status = 500

\* C28: WithTransaction ends every transaction it began exactly once: it
\* commits when the callback returned nil, rolls back and returns the
\* callback's error when it returned an error, and rolls back before the
\* panic is raised again when it panicked; after a rollback none of the
\* callback's writes are visible.
C28_TransactionEndedOnce ==
    (tx.pc \in {"respond", "answered", "panicked"} /\ tx.ret # "ErrBegin")
    => /\ tx.done
       /\ tx.ends = 1
       /\ tx.panicked =>
            /\ tx.pc = "panicked"
            /\ tx.rollbacks = 1
            /\ tx.commitCalls = 0
       /\ (~tx.panicked /\ tx.fnErr # "nil") =>
            /\ tx.rollbacks = 1
            /\ tx.commitCalls = 0
            /\ tx.ret = tx.fnErr
       /\ (~tx.panicked /\ tx.fnErr = "nil") =>
            /\ tx.commitCalls = 1
            /\ ~tx.commitFailed =>
                 /\ tx.commits = 1
                 /\ tx.rollbacks = 0
                 /\ db = tx.pending
       /\ tx.rollbacks > 0 => db = tx.start

\* A statement failed after the callback had written rows; the handler has
\* answered and the rows are as they were.
C28_Witness ==
    /\ tx.pc = "answered"
    /\ tx.fnErr = "ErrSql"
    /\ tx.pending # tx.start
    /\ tx.rollbacks = 1
    /\ db = tx.start

\* C29: when one or more per-role units of an upsertRoles call fail, the
\* call returns a non-nil error, the error of the first unit that failed, in
\* every interleaving of the goroutines; run inside WithTransaction, no
\* insert or update of the batch is then committed.
C29_FirstFailureReturned ==
    ( /\ tx.op = "updateRoles"
      /\ tx.pc \in {"return", "deferred", "respond", "answered"}
      /\ tx.failed # <<>> )
    => /\ tx.fnErr # "nil"
       /\ tx.fnErr = tx.failed[1]
       /\ tx.pc \in {"respond", "answered"} => db = tx.start

\* C30: when the input list of upsertRoles holds two roles with the same id,
\* neither named "Group Owner", after the call the stored role with that id
\* carries the name and the flags of the element that comes last in the
\* list, in every interleaving of the per-role units.  Stated for the calls
\* in which no statement failed and the transaction was committed.
C30_LastElementWins ==
    ( /\ tx.op = "updateRoles"
      /\ tx.pc = "answered"
      /\ tx.roles[1].id = tx.roles[2].id
      /\ tx.failed = <<>>
      /\ tx.fnErr = "nil"
      /\ tx.commits = 1 )
    => /\ tx.roles[2].id \in DOMAIN db.role
       /\ db.role[tx.roles[2].id].name = tx.roles[2].name
       /\ db.role[tx.roles[2].id].flags = tx.roles[2].flags

\* The roles named "Group Owner" that group g owns in d.
OwnerRolesIn(d, g) ==
    {r \in DOMAIN d.role : d.role[r].groupId = g /\ d.role[r].name = GroupOwner}

\* C31: creating a group is atomic and creates exactly one owner role: once
\* createGroup has committed, the group row, the creator's membership, exactly
\* one role named "Group Owner" owned by the group and one user_role row
\* binding it to the creator exist; if any step failed, none is committed.
C31_CreateGroupAtomic ==
    ( /\ tx.op = "createGroup"
      /\ tx.pc \in {"respond", "answered"}
      /\ tx.ret # "ErrBegin" )
    => /\ tx.commits = 1 =>
            /\ tx.target \in DOMAIN db.organisation
            /\ tx.target \notin DOMAIN tx.start.organisation
            /\ db.organisation_user[<<tx.user, tx.target>>] = 1
            /\ Cardinality(OwnerRolesIn(db, tx.target)) = 1
            /\ \A r \in OwnerRolesIn(db, tx.target) :
                  /\ db.user_role[<<tx.user, r>>] = 1
                  /\ CountHolders(db, r) = 1
       /\ tx.fnErr # "nil" => db = tx.start
       /\ (tx.commits = 0) => db = tx.start

\* The insert into user_role failed after the three inserts before it; the
\* handler has answered and no row of the group is stored.
C31_Witness ==
    /\ tx.op = "createGroup"
    /\ tx.pc = "answered"
    /\ tx.fnErr = "GenericSQL"
    /\ tx.target \in DOMAIN tx.pending.role
    /\ tx.pending.user_role[<<tx.user, tx.target>>] = 0
    /\ db = tx.start
    /\ tx.status = 500

\* C32: in every reachable state every existing group has exactly one role
\* named "Group Owner", and that role has all ten capability flags true,
\* after any sequence of createGroup, upsertRoles, deleteRole, addMemberRole
\* and removeMemberRole.
C32_OneFullOwnerRolePerGroup ==
    \A g \in DOMAIN db.organisation :
        /\ Cardinality(OwnerRolesIn(db, g)) = 1
        /\ \A r \in OwnerRolesIn(db, g) : db.role[r].flags = AllTrue

\* C33: deleteGroupCascade(G, requester) creates, in the transaction that
\* deletes G, a default group named "My organisation" with the requester as
\* member if and only if the requester has no membership left once G is
\* removed; if the requester still has a membership, no group is created.
C33_Step ==
    \A u \in Users, g \in GroupIds :
        last' = Result("deleteGroup", u, g, "nil")
        => LET created == DOMAIN db'.organisation \ DOMAIN db.organisation
           IN /\ g \notin DOMAIN db'.organisation
              /\ IF UserOrganisations(db, u) \ {g} = {}
                 THEN /\ Cardinality(created) = 1
                      /\ \A n \in created :
                            /\ db'.organisation[n] = DefaultGroupName
                            /\ db'.organisation_user[<<u, n>>] = 1
                            /\ UserOrganisations(db', u) = {n}
                 ELSE /\ created = {}
                      /\ UserOrganisations(db', u) = UserOrganisations(db, u) \ {g}

C33_DefaultGroupIffNoneLeft == [][C33_Step]_vars

\* A requester who is still in another group deleted a group: no group was
\* created.
C33_Witness ==
    \E u \in Users, g \in GroupIds :
        /\ last = Result("deleteGroup", u, g, "nil")
        /\ g \notin DOMAIN db.organisation
        /\ UserOrganisations(db, u) # {}
        /\ \A n \in DOMAIN db.organisation : db.organisation[n] # DefaultGroupName

\* A requester whose only group was deleted is in a default group.
C33_WitnessCreated ==
    \E u \in Users, g \in GroupIds :
        /\ last = Result("deleteGroup", u, g, "nil")
        /\ \E n \in DOMAIN db.organisation :
              /\ UserOrganisations(db, u) = {n}
              /\ db.organisation[n] = DefaultGroupName

\* ------------------------------------------------ deleteRole, step by step
\* POST /api/group/:id/role/delete, statement by statement, while other
\* requests assign roles.  In this specification tx holds the one deleteRole
\* transaction: its position, the role id, which of its two DELETEs it has
\* executed, and whether user_role has an index on roleId.
NoDelete ==
    [pc |-> "idle", role |-> 0, rowsDeleted |-> FALSE, roleDeleted |-> FALSE,
     err |-> "nil", indexed |-> FALSE]

InitDel ==
    /\ \E own \in BOOLEAN, joined \in BOOLEAN, option \in RoleOptions :
          db = Scenario(own, joined, option)
    /\ \E indexed \in BOOLEAN : tx = [NoDelete EXCEPT !.indexed = indexed]
    /\ last = Result("none", "none", 0, "nil")
    /\ ev = NoEval
    /\ req = NoRequest
    /\ audit = <<>>
    /\ revoked = {}
    /\ sink = NoEntries

\* The tables as the deleteRole transaction sees them: the committed rows
\* without the ones it has deleted.
DeleteView(d, t) ==
    LET d1 == IF t.rowsDeleted
              THEN [d EXCEPT !.user_role =
                      [p \in DOMAIN @ |-> IF p[2] = t.role THEN 0 ELSE @[p]]]
              ELSE d
    IN IF t.roleDeleted
       THEN [d1 EXCEPT !.role = [r \in DOMAIN @ \ {t.role} |-> @[r]]]
       ELSE d1

\* The handler calls WithTransaction with DeleteRoleWithTx(tx, body.RoleId).
deleteRoleBegin(r) ==
    /\ tx.pc = "idle"
    /\ tx' = [tx EXCEPT !.role = r, !.pc = "deleteUserRoles"]
    /\ UNCHANGED <<db, last, ev, req, audit, revoked, sink>>

\* The two DELETEs in the other order: the role row goes first.
deleteRoleRowFirst ==
    /\ tx.pc = "deleteUserRoles"
    /\ \E ok \in BOOLEAN :
          tx' = IF ok THEN [tx EXCEPT !.roleDeleted = TRUE, !.pc = "deleteRoleRow"]
                ELSE [tx EXCEPT !.err = "GenericSQL", !.pc = "rollback"]
    /\ UNCHANGED <<db, last, ev, req, audit, revoked, sink>>

\* DELETE FROM user_role WHERE roleId = ?
deleteUserRoles ==
    /\ tx.pc = "deleteUserRoles"
    /\ \E ok \in BOOLEAN :
          tx' = IF ok THEN [tx EXCEPT !.rowsDeleted = TRUE, !.pc = "deleteRoleRow"]
                ELSE [tx EXCEPT !.err = "GenericSQL", !.pc = "rollback"]
    /\ UNCHANGED <<db, last, ev, req, audit, revoked, sink>>

\* DELETE FROM role WHERE id = ?
deleteRoleRow ==
    /\ tx.pc = "deleteRoleRow"
    /\ \E ok \in BOOLEAN :
          tx' = IF ok THEN [tx EXCEPT !.roleDeleted = TRUE, !.pc = "commit"]
                ELSE [tx EXCEPT !.err = "GenericSQL", !.pc = "rollback"]
    /\ UNCHANGED <<db, last, ev, req, audit, revoked, sink>>

\* WithTransaction: deleteRole returned nil, the transaction commits.
commitDeleteRole ==
    /\ tx.pc = "commit"
    /\ db' = DeleteView(db, tx)
    /\ tx' = [tx EXCEPT !.pc = "done"]
    /\ last' = Result("deleteRole", "none", tx.role, "nil")
    /\ UNCHANGED <<ev, req, audit, revoked, sink>>

\* WithTransaction: deleteRole returned an error, the transaction is rolled
\* back.
rollbackDeleteRole ==
    /\ tx.pc = "rollback"
    /\ tx' = [tx EXCEPT !.rowsDeleted = FALSE, !.roleDeleted = FALSE, !.pc = "done"]
    /\ last' = Result("deleteRole", "none", tx.role, tx.err)
    /\ UNCHANGED <<db, ev, req, audit, revoked, sink>>

\* The addMemberRole of another request commits.  Its INSERT waits while the
\* deleteRole transaction holds the locks of its DELETE FROM user_role: on
\* the index range of the role id, or on the whole table when roleId has no
\* index.
otherAddMemberRole(u, r) ==
    /\ TotalUserRoles(db) < MaxRows
    /\ r \in DOMAIN db.role
    /\ ~( /\ tx.rowsDeleted
          /\ tx.pc \in {"deleteRoleRow", "commit", "rollback"}
          /\ r = tx.role \/ ~tx.indexed )
    /\ db' = AddMemberRole(db, u, r).db
    /\ UNCHANGED <<last, ev, req, audit, revoked, tx, sink>>

NextDel ==
    \/ \E r \in RoleIds : deleteRoleBegin(r)
    \/ deleteUserRoles
    \/ deleteRoleRow
    \/ commitDeleteRole
    \/ rollbackDeleteRole
    \/ \E u \in Users, r \in RoleIds : otherAddMemberRole(u, r)

SpecDel == InitDel /\ [][NextDel]_vars

\* The user_role rows of d whose role is not in the role table.
Dangling(d) ==
    {p \in DOMAIN d.user_role : d.user_role[p] > 0 /\ p[2] \notin DOMAIN d.role}

MaxEntries == 2
Entries == 1..MaxEntries

NoWorkers ==
    [worker |-> [w \in Workers |-> "starting"],
     prepared |-> [w \in Workers |-> FALSE],
     held |-> [w \in Workers |-> 0],
     caller |-> [c \in Callers |-> "idle"],
     entry |-> [c \in Callers |-> 0],
     sent |-> 0,
     accepted |-> {},
     attempts |-> [e \in Entries |-> 0],
     crashed |-> FALSE]

InitSink ==
    /\ db = EmptyDB
    /\ last = Result("none", "none", 0, "nil")
    /\ ev = NoEval
    /\ req = NoRequest
    /\ audit = <<>>
    /\ revoked = {}
    /\ tx = NoTx
    /\ sink = NoWorkers

\* write_worker starts: client.Prepare succeeds, or fails; the failure is
\* printed and the worker goes on to its loop with a nil statement.
prepareStatement(w) ==
    /\ ~sink.crashed
    /\ sink.worker[w] = "starting"
    /\ \E ok \in BOOLEAN :
          sink' = [sink EXCEPT !.worker[w] = "ready", !.prepared[w] = ok]
    /\ UNCHANGED <<db, last, ev, req, audit, revoked, tx>>

\* logUserAction calls NewEntry with a new entry: the send begins.
newEntry(c) ==
    /\ ~sink.crashed
    /\ sink.caller[c] = "idle"
    /\ sink.sent < MaxEntries
    /\ sink' = [sink EXCEPT !.caller[c] = "sending", !.entry[c] = sink.sent + 1,
                            !.sent = @ + 1]
    /\ UNCHANGED <<db, last, ev, req, audit, revoked, tx>>

\* The send of caller c meets the receive of worker w: NewEntry returns and
\* the worker has the entry.
receiveEntry(c, w) ==
    /\ ~sink.crashed
    /\ sink.caller[c] = "sending"
    /\ sink.worker[w] = "ready"
    /\ sink' = [sink EXCEPT !.caller[c] = "returned", !.worker[w] = "received",
                            !.held[w] = sink.entry[c],
                            !.accepted = @ \cup {sink.entry[c]}]
    /\ UNCHANGED <<db, last, ev, req, audit, revoked, tx>>

\* The request of caller c ends (answered, or cancelled by its client); the
\* workers are not told.
requestEnds(c) ==
    /\ ~sink.crashed
    /\ sink.caller[c] = "returned"
    /\ sink' = [sink EXCEPT !.caller[c] = "idle"]
    /\ UNCHANGED <<db, last, ev, req, audit, revoked, tx>>

\* The worker calls stmt.Exec for the entry it holds.  With the statement of
\* a failed Prepare, stmt is nil: the call panics in the worker's goroutine
\* and the process ends.
execEntry(w) ==
    /\ ~sink.crashed
    /\ sink.worker[w] = "received"
    /\ sink' = IF sink.prepared[w]
               THEN [sink EXCEPT !.worker[w] = "insert",
                                 !.attempts[sink.held[w]] = @ + 1]
               ELSE [sink EXCEPT !.crashed = TRUE]
    /\ UNCHANGED <<db, last, ev, req, audit, revoked, tx>>

\* stmt.Exec returns, with an error (printed) or without; the worker is back
\* at the receive.
execReturns(w) ==
    /\ ~sink.crashed
    /\ sink.worker[w] = "insert"
    /\ sink' = [sink EXCEPT !.worker[w] = "ready", !.held[w] = 0]
    /\ UNCHANGED <<db, last, ev, req, audit, revoked, tx>>

NextSink ==
    \/ \E w \in Workers : prepareStatement(w)
    \/ \E c \in Callers : newEntry(c)
    \/ \E c \in Callers, w \in Workers : receiveEntry(c, w)
    \/ \E c \in Callers : requestEnds(c)
    \/ \E w \in Workers : execEntry(w)
    \/ \E w \in Workers : execReturns(w)

\* Fair scheduling of the write workers: a worker that holds an entry gets
\* to run.
SpecSink ==
    InitSink /\ [][NextSink]_vars /\ \A w \in Workers : WF_vars(execEntry(w))

\* C35: under fair scheduling of the write workers, every audit entry
\* accepted by NewEntry is eventually attempted for persistence by exactly
\* one worker, exactly once, whether or not the originating request was
\* cancelled or has finished; no entry is lost before the attempt or written
\* twice.
C35_AcceptedEntryAttemptedOnce ==
    \A e \in Entries :
        /\ [](sink.attempts[e] <= 1)
        /\ (e \in sink.accepted) ~> (sink.attempts[e] = 1)

\* ------------------------------------------------- members with their roles
\* getMembersWithRoles: the rows of
\*   user u INNER JOIN organisation_user ou ON u.id = ou.userId
\*          INNER JOIN user_role ur ON u.id = ur.userId
\*          INNER JOIN role r ON ur.roleId = r.id
\*   WHERE ou.organisationId = ?
\* gathered in a map keyed by user id: one MemberRole per user with a row,
\* carrying one (id, name) per row.  For one user the rows are those of
\* JoinRows.
MemberRoleRows(d, userId, groupId) ==
    LET rows == JoinRows(d, userId, groupId, SortedIds(DOMAIN d.role))
    IN [i \in 1..Len(rows) |-> [id |-> rows[i].id, name |-> rows[i].name]]

getMembersWithRoles(d, groupId) ==
    IF groupId \notin OrgIds THEN {}
    ELSE {[id |-> u, roles |-> MemberRoleRows(d, u, groupId)]
            : u \in {v \in Users : MemberRoleRows(d, v, groupId) # <<>>}}

\* GET /api/group/:id/role/member_roles
getMemberRoles(g) ==
    /\ last' = [op |-> "getMemberRoles", user |-> "none", target |-> g,
                err |-> "nil", members |-> getMembersWithRoles(db, g)]
    /\ UNCHANGED <<db, ev, req, audit, revoked, tx, sink>>

InitMembers ==
    /\ \E own \in BOOLEAN, joined \in BOOLEAN, option \in RoleOptions :
          db = Scenario(own, joined, option)
    /\ last = Result("none", "none", 0, "nil")
    /\ ev = NoEval
    /\ req = NoRequest
    /\ audit = <<>>
    /\ revoked = {}
    /\ tx = NoTx
    /\ sink = NoEntries

NextMembers ==
    \/ \E u \in Users, r \in RoleIds : addMemberRole(u, r)
    \/ \E u \in Users, r \in RoleIds : removeMemberRole(u, r)
    \/ \E g \in GroupIds : getMemberRoles(g)

SpecMembers == InitMembers /\ [][NextMembers]_vars

\* C36: getMembersWithRoles(G) returns exactly one entry per distinct member
\* of G that holds at least one role in G, each carrying the (id, name) pairs
\* of the roles that member holds; a member of G that holds no role in G
\* does not appear, whatever roles that member holds in other groups.
C36_MembersWithRolesOfGroup ==
    last.op = "getMemberRoles" =>
       /\ \A u \in Users :
             (\E m \in last.members : m.id = u)
                <=> RolesHeldIn(db, u, last.target) # {}
       /\ \A m1 \in last.members, m2 \in last.members : m1.id = m2.id => m1 = m2
       /\ \A m \in last.members :
             {<<m.roles[i].id, m.roles[i].name>> : i \in 1..Len(m.roles)}
                = {<<r, db.role[r].name>> : r \in RolesHeldIn(db, m.id, last.target)}

\* C37: when two accept requests for the same invitation run concurrently,
\* in any interleaving, exactly one membership row is created for the
\* invitee in the target group and the invitation is deleted once.
C37_ConcurrentAcceptsCreateOneMembership ==
    \A u \in Users, g \in GroupIds :
        ( /\ tx.start.invitation[<<u, g>>] = 1
          /\ tx.start.organisation_user[<<u, g>>] = 0
          /\ \A t \in TxIds :
                /\ tx.slot[t].pc = "done"
                /\ tx.slot[t].op = "joinGroup"
                /\ tx.slot[t].user = u
                /\ tx.slot[t].target = g )
        => /\ db.organisation_user[<<u, g>>] = 1
           /\ db.invitation[<<u, g>>] = 0

\* C38: the remove-member route answers 404 when removeUserFromGroup fails
\* with NotFound (the user has no membership in the group), and 500 only for
\* storage or transaction failures.
C38_NotFoundAnswered404 ==
    ( /\ tx.op = "removeMember"
      /\ tx.pc = "answered"
      /\ tx.ret # "nil" )
    => IF ErrorsIs(tx.ret, "NotFound") THEN tx.status = 404
       ELSE tx.status = 500

\* C39: a user who was removed from group G and re-joins G by accepting an
\* invitation holds no role in G: no role of G is assigned to the user when
\* the join has committed.  (In SpecMember a user outside G can have held a
\* role of G only as a member who was removed since: roles are assigned to
\* members, and no action of it assigns one after the join.)
C39_Step ==
    \A u \in Users, g \in GroupIds :
        ( /\ last' = Result("joinGroup", u, g, "nil")
          /\ db.organisation_user[<<u, g>>] = 0 )
        => \A r \in DOMAIN db'.role :
               db'.role[r].groupId = g => db'.user_role[<<u, r>>] = 0

C39_RejoinedMemberHoldsNoRole == [][C39_Step]_vars

\* ---------------------------------------------------------------------
\* The email lookup of the audit stage and the cache flush worker
\* ---------------------------------------------------------------------

MaxLookups == 4
MaxFlushes == 2

\* The user ids the audit stage looks up: those of the users and "None",
\* which it uses when no user id is bound to the request.
LookupIds == Users \cup {"None"}

\* The user table: the id and the email of the registered users.
Email(userId) == IF userId = "u1" THEN "u1@example.org" ELSE "u2@example.org"

\* ReadUserById: the user, or an error when the row is missing or the
\* statement fails.
ReadUserByIdOutcomes(userId) ==
    IF userId \in Users THEN {Email(userId), "Error reading email"}
    ELSE {"Error reading email"}

\* req in this specification: cache is handler.cache (user id -> email of
\* the cached user); resolved are the ids whose email a lookup read from the
\* store since the last flush; lookup is the last lookup of the audit stage.
NoLookups ==
    [cache |-> <<>>,
     resolved |-> {},
     lookup |-> [user |-> "none", source |-> "none", email |-> ""],
     lookups |-> 0,
     flushes |-> 0]

InitCache ==
    /\ db = EmptyDB
    /\ last = Result("none", "none", 0, "nil")
    /\ ev = NoEval
    /\ req = NoLookups
    /\ audit = <<>>
    /\ revoked = {}
    /\ tx = NoTx
    /\ sink = NoEntries

\* logUserAction, "get email by userId": the email of the cached user when
\* the map has the id, else the email ReadUserById returns, or "Error reading
\* email".  The user read from the store is a variable of the if block;
\* nothing is assigned to handler.cache.
resolveEmail(userId) ==
    /\ req.lookups < MaxLookups
    /\ IF userId \in DOMAIN req.cache
       THEN /\ req' = [req EXCEPT
                          !.lookup = [user |-> userId, source |-> "cache",
                                      email |-> req.cache[userId]],
                          !.lookups = @ + 1]
            /\ audit' = Append(audit, [userId |-> userId,
                                       email |-> req.cache[userId]])
       ELSE \E email \in ReadUserByIdOutcomes(userId) :
               /\ req' = [req EXCEPT
                             !.lookup = [user |-> userId, source |-> "store",
                                         email |-> email],
                             !.resolved = IF email = "Error reading email"
                                          THEN @ ELSE @ \cup {userId},
                             !.lookups = @ + 1]
               /\ audit' = Append(audit, [userId |-> userId, email |-> email])
    /\ UNCHANGED <<db, last, ev, revoked, tx, sink>>

\* cacheFlushWorker, on a tick of its 30 minute ticker: handler.cache is
\* replaced by an empty map.
cacheFlush ==
    /\ req.flushes < MaxFlushes
    /\ req' = [req EXCEPT !.cache = <<>>, !.resolved = {}, !.flushes = @ + 1]
    /\ UNCHANGED <<db, last, ev, audit, revoked, tx, sink>>

NextCache ==
    \/ \E userId \in LookupIds : resolveEmail(userId)
    \/ cacheFlush

SpecCache == InitCache /\ [][NextCache]_vars

\* C40: after the audit stage has resolved the email of user U from the
\* store on a cache miss, a later lookup for U before the next flush takes
\* the email from the cache, without a store read; a lookup for a user not
\* resolved since the last flush reads the store.
C40_Step ==
    \A userId \in LookupIds :
        ( /\ req'.lookups = req.lookups + 1
          /\ req'.lookup.user = userId )
        => req'.lookup.source =
              IF userId \in req.resolved THEN "cache" ELSE "store"

C40_ResolvedEmailServedFromCache == [][C40_Step]_vars

====
